---- MODULE Spec2Model ----
(***************************************************************************)
(* Verification model of the ETL pipeline (Python-DataPipeline-Core).      *)
(*                                                                         *)
(*   SpecQuote     ordered-failover quote retrieval                        *)
(*                 (extract_exchange_rate_api, extract_crypto_price_api)   *)
(*   SpecValidate  the plausibility predicates                             *)
(*                 (validate_exchange_rate, validate_crypto_price)         *)
(*   SpecTransform the transform stages                                    *)
(*                 (clean_data, standardize_data, enrich_data,             *)
(*                  aggregate_data)                                        *)
(*   SpecPipeline  orchestrated runs and loads against one database        *)
(*                 (run_pipeline, main, load_all_data)                     *)
(*   SpecExtract   the sales files read by one extraction                  *)
(*                 (extract_all_sources, extract_file_data)                *)
(*   SpecConcurrentLoad  several load_all_data calls on one database       *)
(*   SpecDataValidator  the bookkeeping of the validation checks           *)
(*                 (DataValidator)                                         *)
(*                                                                         *)
(* Money and rates are fixed-point integers: a rate is in hundredths       *)
(* (0.18 is 18), a local price is in whole currency units, a converted     *)
(* price or value is in hundredths of a dollar (price * rate).             *)
(***************************************************************************)
EXTENDS Integers, Sequences, FiniteSets, TLC

VARIABLES
    qfam,       \* quote call: which provider family ("fx" | "crypto")
    qpc,        \* quote call: "loop" | "waiting" | "returned" | "raised" | "off"
    qidx,       \* quote call: position of the for-loop in the apis list (1-based)
    qissued,    \* quote call: candidates a request was sent to, in order
    qattempts,  \* quote call: completed requests, in order, with their outcome
    qresult,    \* quote call: the dict returned to the caller (NoResult if none)
    vfn,        \* validator call: which predicate is called ("none" when off)
    varg,       \* validator call: its arguments
    vret,       \* validator call: its return value ("pending" before the call)
    tstage,     \* transform: "raw" | "clean" | "std" | "enriched" | "aggregated" | "error" | "off"
    tdf,        \* transform: the current (detailed) dataset
    tprev,      \* transform: the dataset the last stage was applied to
    tagg,       \* transform: the aggregated dataset (<<>> before aggregate_data)
    trate,      \* transform: exchange_rate['rate'] handed to enrich_data
    tapplied,   \* transform: how many times the stage of tstage has been applied
    tclock,     \* transform: the wall clock read by datetime.now()
    pkind,      \* call: "pipeline" (run_pipeline) | "load" (load_all_data alone) | "none" | "off"
    ppc,        \* call: where the call stands (see SpecPipeline)
    pmode,      \* call: load_mode, "replace" | "append"
    pmain,      \* call: TRUE when run_pipeline was entered through main()
    ptrace,     \* call: the phases and stages started so far, in order
    pret,       \* call: what run_pipeline returned ("none" | "True" | "False")
    pexit,      \* call: the process exit code set by main() (-1 when none)
    pcalls,     \* number of calls started so far
    psnap,      \* the database as it was when the call started
    lengine,    \* load_all_data: TRUE once `engine` is bound
    lmeta,      \* load_all_data: what create_metadata_table returned
    lsd,        \* load_all_data: success_detailed ("none" | "True" | "False")
    lsa,        \* load_all_data: success_aggregated
    llog,       \* load_all_data: what log_pipeline_execution returned
    lret,       \* load_all_data: its return value ("none" | "True" | "False")
    dbdet,      \* database: rows of table vendas_detalhadas
    dbagg,      \* database: rows of table vendas_agregadas
    dbmeta,     \* database: table etl_metadata, [exists, rows]
    dvresults,  \* DataValidator: self.validation_results
    dvlast,     \* DataValidator: the method called last ("none" before any)
    dvret,      \* DataValidator: what that method returned
    dvcalls,    \* number of validate_* calls since construction or the last reset
    dvpassed,   \* number of those calls that returned success
    dvops,      \* number of DataValidator methods called so far
    xpc,        \* extraction: "start" | "loop" | "fx" | "crypto" | "returned" | "raised" | "off"
    xdir,       \* extraction: data/raw, [exists, files]
    xfiles,     \* extraction: supported_files, in listing order
    xidx,       \* extraction: position of the for-loop in supported_files
    xframes,    \* extraction: all_dataframes
    xdf,        \* extraction: vendas_df (<<>> before it is bound)
    xdefault,   \* extraction: TRUE once the default file was asked for
    xreq,       \* extraction: the provider families asked, in order
    xerr,       \* extraction: the exception that ended it ("none" if none)
    kruns,      \* loads side by side: the locals of each load_all_data call
    kserial     \* loads side by side: TRUE when the caller runs them one at a time

qvars == <<qfam, qpc, qidx, qissued, qattempts, qresult>>
vvars == <<vfn, varg, vret>>
tvars == <<tstage, tdf, tprev, tagg, trate, tapplied, tclock>>
cvars == <<pkind, ppc, pmode, pmain, ptrace, pret, pexit, pcalls, psnap>>
lvars == <<lengine, lmeta, lsd, lsa, llog, lret>>
dbvars == <<dbdet, dbagg, dbmeta>>
pvars == <<cvars, lvars, dbvars>>
dvars == <<dvresults, dvlast, dvret, dvcalls, dvpassed, dvops>>
xvars == <<xpc, xdir, xfiles, xidx, xframes, xdf, xdefault, xreq, xerr>>
kvars == <<kruns, kserial>>
evars == <<dvars, xvars, kvars>>
vars == <<qvars, vvars, tvars, pvars, evars>>

(***************************************************************************)
(* JSON scalar values as a provider may send them.                         *)
(*   k = "num"     a JSON number n                                         *)
(*   k = "numstr"  a JSON string that spells the number n ("65000.00")     *)
(*   k = "badstr"  a JSON string that spells no number                     *)
(*   k = "null"    JSON null                                               *)
(***************************************************************************)
JNum(n) == [k |-> "num", n |-> n]
JNumStr(n) == [k |-> "numstr", n |-> n]
JBadStr == [k |-> "badstr", n |-> 0]
JNull == [k |-> "null", n |-> 0]

(***************************************************************************)
(* validate_exchange_rate / validate_crypto_price (extract.py 42-80).      *)
(***************************************************************************)
RateLo == 10
RateHi == 50
BtcLo == 10000
BtcHi == 500000

validate_crypto_price_strict(price, crypto) ==
    IF crypto = "BTC" THEN (BtcLo < price /\ price < BtcHi) ELSE TRUE

validate_crypto_price(price, crypto) ==
    IF crypto = "BTC"
    THEN IF ~(BtcLo <= price /\ price <= BtcHi) THEN FALSE ELSE TRUE
    ELSE TRUE

validate_exchange_rate_strict(rate, base, target) ==
    IF base = "BRL" /\ target = "USD" THEN (RateLo < rate /\ rate < RateHi) ELSE TRUE

validate_exchange_rate(rate, base, target) ==
    IF base = "BRL" /\ target = "USD"
    THEN IF ~(RateLo <= rate /\ rate <= RateHi) THEN FALSE ELSE TRUE
    ELSE TRUE

(***************************************************************************)
(* The two provider families, in priority order (extract.py 199-215 and    *)
(* 341-369).                                                               *)
(***************************************************************************)
FxApis ==
    << [name |-> "Frankfurter", parser |-> "frankfurter"],
       [name |-> "ExchangeRate-API", parser |-> "exchangerate"],
       [name |-> "Fixer.io (Fallback)", parser |-> "fixer"] >>

CryptoApis ==
    << [name |-> "CoinGecko", parser |-> "coingecko"],
       [name |-> "Binance", parser |-> "binance"],
       [name |-> "CoinCap", parser |-> "coincap"],
       [name |-> "CoinDesk", parser |-> "coindesk"] >>

Apis(fam) == IF fam = "fx" THEN FxApis ELSE CryptoApis

(***************************************************************************)
(* A decoded response body (response.json()).  One record shape serves     *)
(* every provider:                                                         *)
(*   isdict     the body is a JSON object                                  *)
(*   container  the enclosing object is present: 'rates' (fx), 'bitcoin'   *)
(*              (coingecko), 'data' (coincap), 'bpi'/'USD' (coindesk);     *)
(*              binance has none, the field is read from the body itself   *)
(*   field      the quote field is present: rates[target], 'usd', 'price', *)
(*              'priceUsd', 'rate_float'                                   *)
(*   stamp      'date' (frankfurter) or 'time'/'updated' (coindesk) present*)
(*   val        the value of the quote field                               *)
(*   aux        the other currency fields (eur, gbp, brl):                 *)
(*              "num" numbers, "missing" absent, "bad" not numbers         *)
(***************************************************************************)
Payload(d, c, f, s, v, a) ==
    [isdict |-> d, container |-> c, field |-> f, stamp |-> s, val |-> v, aux |-> a]

NoPayload == Payload(FALSE, FALSE, FALSE, FALSE, JNull, "missing")

NoResult == [kind |-> "none", source |-> "", value |-> JNull, aux |-> "missing", fallback |-> FALSE]

ParseOk(r) == [st |-> "ok", res |-> r]
ParseNone == [st |-> "none", res |-> NoResult]
ParseRaise == [st |-> "raise", res |-> NoResult]

(***************************************************************************)
(* _parse_exchange_rate_response (extract.py 264-316).  data['rates'] and  *)
(* data['rates'][target] / data['date'] raise KeyError or TypeError when   *)
(* absent, which the function turns into None; .get(target, 0) and         *)
(* .get('date', today) default instead.                                    *)
(***************************************************************************)
FxResult(v, source) ==
    [kind |-> "fx", source |-> source, value |-> v, aux |-> "num", fallback |-> FALSE]

_parse_exchange_rate_response(data, parser_type, source) ==
    IF parser_type = "frankfurter"
    THEN IF data.isdict /\ data.container /\ data.field /\ data.stamp
         THEN ParseOk(FxResult(data.val, source))
         ELSE ParseNone
    ELSE IF parser_type \in {"exchangerate", "fixer"}
    THEN IF data.isdict /\ data.container
         THEN ParseOk(FxResult(IF data.field THEN data.val ELSE JNum(0), source))
         ELSE ParseNone
    ELSE ParseNone

(***************************************************************************)
(* _parse_crypto_response (extract.py 414-489).  float(x) of a number or   *)
(* of a string spelling one gives the number; of another string it raises  *)
(* ValueError and of None TypeError, both turned into None.  A body that   *)
(* is no dict has no .get: AttributeError, which this function does not    *)
(* catch.                                                                  *)
(***************************************************************************)
CryptoResult(v, a, source) ==
    [kind |-> "crypto", source |-> source, value |-> v, aux |-> a, fallback |-> FALSE]

PyFloatOk(v) == v.k \in {"num", "numstr"}

_parse_crypto_response(data, parser_type, source) ==
    IF parser_type = "coingecko"
    THEN IF ~data.isdict THEN ParseRaise
         ELSE LET present == data.container /\ data.field
              IN ParseOk(CryptoResult(
                     IF present THEN data.val ELSE JNum(0),
                     IF data.container /\ data.aux = "bad" THEN "bad" ELSE "num",
                     source))
    ELSE IF parser_type \in {"binance", "coincap"}
    THEN IF ~data.isdict THEN ParseRaise
         ELSE LET present == (parser_type = "binance" \/ data.container) /\ data.field
                  raw == IF present THEN data.val ELSE JNum(0)
              IN IF PyFloatOk(raw)
                 THEN ParseOk(CryptoResult(JNum(raw.n), "num", source))
                 ELSE ParseNone
    ELSE IF parser_type = "coindesk"
    THEN IF data.isdict /\ data.container /\ data.field /\ data.aux # "missing"
            /\ data.val.k = "num" /\ data.stamp
         THEN ParseOk(CryptoResult(data.val, data.aux, source))
         ELSE ParseNone
    ELSE ParseNone

(***************************************************************************)
(* What the wire can do to one request (requests.get with timeout=8,       *)
(* raise_for_status, response.json): "timeout" is requests' Timeout,       *)
(* "reqerror" any other RequestException (connection refused, 4xx/5xx),    *)
(* "badjson" a body that is no JSON, "ok" a decoded body.                  *)
(***************************************************************************)
HttpFailures == {"timeout", "reqerror", "badjson"}

FxPayloads ==
    { Payload(TRUE, TRUE, TRUE, TRUE, v, "num") :
          v \in {JNum(18), JNum(10), JNum(5), JNum(60), JNum(0), JNum(-1),
                 JNumStr(18), JNull} }
    \cup { Payload(TRUE, FALSE, FALSE, TRUE, JNull, "num"),
           Payload(TRUE, TRUE, FALSE, TRUE, JNull, "num"),
           Payload(TRUE, TRUE, TRUE, FALSE, JNum(18), "num"),
           Payload(FALSE, FALSE, FALSE, FALSE, JNull, "num") }

CryptoPayloads ==
    { Payload(TRUE, TRUE, TRUE, TRUE, v, "num") :
          v \in {JNum(65000), JNum(5000), JNum(600000), JNum(0),
                 JNumStr(65000), JBadStr, JNull} }
    \cup { Payload(TRUE, TRUE, TRUE, TRUE, JNum(65000), "bad"),
           Payload(TRUE, TRUE, TRUE, TRUE, JNum(65000), "missing"),
           Payload(TRUE, FALSE, FALSE, TRUE, JNull, "num"),
           Payload(TRUE, TRUE, FALSE, TRUE, JNull, "num"),
           Payload(TRUE, TRUE, TRUE, FALSE, JNum(65000), "num"),
           Payload(FALSE, FALSE, FALSE, FALSE, JNull, "num") }

Payloads(fam) == IF fam = "fx" THEN FxPayloads ELSE CryptoPayloads

(***************************************************************************)
(* The body of one loop iteration after the response arrived               *)
(* (extract.py 229-242 and 384-392).                                       *)
(*  fx:     `if result and result.get('rate', 0) > 0: return result`;      *)
(*          comparing a str or None with 0 raises TypeError, caught by     *)
(*          `except Exception: continue`.                                  *)
(*  crypto: `if result:` then two log lines that format usd_price and the  *)
(*          eur/gbp/brl prices with ':,.2f' (a str or None there raises,   *)
(*          caught by `except Exception: continue`), then `return result`. *)
(* Neither calls validate_exchange_rate / validate_crypto_price.           *)
(***************************************************************************)
Accepted(r) == [accepted |-> TRUE, res |-> r]
Rejected == [accepted |-> FALSE, res |-> NoResult]

TryExchangeRate(api, data) ==
    LET p == _parse_exchange_rate_response(data, api.parser, api.name)
    IN IF p.st = "ok" /\ p.res.value.k = "num" /\ p.res.value.n > 0
       THEN Accepted(p.res)
       ELSE Rejected

TryCryptoPrice(api, data) ==
    LET p == _parse_crypto_response(data, api.parser, api.name)
    IN IF p.st = "ok" /\ p.res.value.k = "num" /\ p.res.aux # "bad"
       THEN Accepted(p.res)
       ELSE Rejected

TryCandidate(fam, api, data) ==
    IF fam = "fx" THEN TryExchangeRate(api, data) ELSE TryCryptoPrice(api, data)

(***************************************************************************)
(* `for api in apis:` moves to the next list element (extract.py 218,      *)
(* 372); every except branch ends in `continue`.                           *)
(***************************************************************************)
ForNextSkip(i) == i + 2

ForNextRetry(i) == i

ForNext(i) == i + 1

(***************************************************************************)
(* After the loop: the call raises (extract.py 256-261, 406-411).          *)
(***************************************************************************)
AllFailedDefault(fam) ==
    [pc |-> "returned",
     res |-> [kind |-> fam, source |-> "default", value |-> JNum(0),
              aux |-> "num", fallback |-> TRUE]]

AllFailed(fam) == [pc |-> "raised", res |-> NoResult]

(***************************************************************************)
(* Quote retrieval as a state machine: one call of                         *)
(* extract_exchange_rate_api() or extract_crypto_price_api().              *)
(***************************************************************************)
VOff == vfn = "none" /\ varg = <<>> /\ vret = "pending"
TOff == tstage = "off" /\ tdf = <<>> /\ tprev = <<>> /\ tagg = <<>>
        /\ trate = 0 /\ tapplied = 0 /\ tclock = 0
QOff == qfam = "none" /\ qpc = "off" /\ qidx = 0 /\ qissued = <<>>
        /\ qattempts = <<>> /\ qresult = NoResult
POff == /\ pkind = "off" /\ ppc = "off" /\ pmode = "none" /\ pmain = FALSE
        /\ ptrace = <<>> /\ pret = "none" /\ pexit = 0 - 1 /\ pcalls = 0
        /\ psnap = <<>>
        /\ lengine = FALSE /\ lmeta = "none" /\ lsd = "none" /\ lsa = "none"
        /\ llog = "none" /\ lret = "none"
        /\ dbdet = <<>> /\ dbagg = <<>> /\ dbmeta = <<>>

DOff == /\ dvresults = <<>> /\ dvlast = "off" /\ dvret = <<>>
        /\ dvcalls = 0 /\ dvpassed = 0 /\ dvops = 0
XOff == /\ xpc = "off" /\ xdir = <<>> /\ xfiles = <<>> /\ xidx = 0 /\ xframes = <<>>
        /\ xdf = <<>> /\ xdefault = FALSE /\ xreq = <<>> /\ xerr = "none"
KOff == kruns = <<>> /\ kserial = FALSE
EOff == DOff /\ XOff /\ KOff

InitQuote ==
    /\ qfam \in {"fx", "crypto"}
    /\ qpc = "loop"
    /\ qidx = 1
    /\ qissued = <<>>
    /\ qattempts = <<>>
    /\ qresult = NoResult
    /\ VOff
    /\ TOff
    /\ POff
    /\ EOff

Attempt(i, http, data, accepted) ==
    [cand |-> i, name |-> Apis(qfam)[i].name, http |-> http, data |-> data,
     accepted |-> accepted]

\* requests.get(api['url'], timeout=8, ...) is called for the current candidate
SendRequest ==
    /\ qpc = "loop"
    /\ qidx <= Len(Apis(qfam))
    /\ qissued' = Append(qissued, qidx)
    /\ qpc' = "waiting"
    /\ UNCHANGED <<qfam, qidx, qattempts, qresult, vvars, tvars, pvars, evars>>

\* the request times out, fails, or its body is no JSON: except ...: continue
RequestFails ==
    /\ qpc = "waiting"
    /\ \E h \in HttpFailures :
           qattempts' = Append(qattempts, Attempt(qidx, h, NoPayload, FALSE))
    /\ qidx' = ForNext(qidx)
    /\ qpc' = "loop"
    /\ UNCHANGED <<qfam, qissued, qresult, vvars, tvars, pvars, evars>>

\* the request returns a decoded body, which is parsed and judged
ResponseArrives ==
    /\ qpc = "waiting"
    /\ \E data \in Payloads(qfam) :
           LET t == TryCandidate(qfam, Apis(qfam)[qidx], data)
           IN /\ qattempts' = Append(qattempts, Attempt(qidx, "ok", data, t.accepted))
              /\ IF t.accepted
                 THEN /\ qresult' = t.res
                      /\ qpc' = "returned"
                      /\ qidx' = qidx
                 ELSE /\ qresult' = qresult
                      /\ qpc' = "loop"
                      /\ qidx' = ForNext(qidx)
    /\ UNCHANGED <<qfam, qissued, vvars, tvars, pvars, evars>>

\* the list is exhausted: raise Exception(...)
Exhausted ==
    /\ qpc = "loop"
    /\ qidx > Len(Apis(qfam))
    /\ qpc' = AllFailed(qfam).pc
    /\ qresult' = AllFailed(qfam).res
    /\ UNCHANGED <<qfam, qidx, qissued, qattempts, vvars, tvars, pvars, evars>>

NextQuote == SendRequest \/ RequestFails \/ ResponseArrives \/ Exhausted

SpecQuote == InitQuote /\ [][NextQuote]_vars

(***************************************************************************)
(* Properties of quote retrieval (SpecQuote).                              *)
(***************************************************************************)
CandidateNames(fam) ==
    IF fam = "fx"
    THEN <<"Frankfurter", "ExchangeRate-API", "Fixer.io (Fallback)">>
    ELSE <<"CoinGecko", "Binance", "CoinCap", "CoinDesk">>

\* a body with every field present, numeric, and inside the plausibility band
ValidPlausible(fam, data) ==
    /\ data.isdict /\ data.container /\ data.field /\ data.stamp
    /\ data.aux = "num"
    /\ data.val.k = "num"
    /\ IF fam = "fx"
       THEN validate_exchange_rate(data.val.n, "BRL", "USD")
       ELSE validate_crypto_price(data.val.n, "BTC")

TimeoutThenValid ==
    /\ Len(qattempts) >= 2
    /\ qattempts[1].http = "timeout"
    /\ qattempts[2].http = "ok"
    /\ ValidPlausible(qfam, qattempts[2].data)

\* C1: candidates are requested strictly in list order, and a returned result
\* names the first candidate in that order whose request succeeded and whose
\* response was accepted; when candidate 1 times out and candidate 2 answers
\* with a valid plausible body, the call returns with source = candidate 2.
C1_FailoverOrder ==
    /\ \A k \in 1..Len(qissued) : qissued[k] = k
    /\ \A k \in 1..Len(qattempts) :
           qattempts[k].cand = k /\ qattempts[k].name = CandidateNames(qfam)[k]
    /\ qpc = "returned" =>
           \E k \in 1..Len(qattempts) :
               /\ qattempts[k].http = "ok" /\ qattempts[k].accepted
               /\ \A j \in 1..(k - 1) : ~qattempts[j].accepted
               /\ qresult.source = CandidateNames(qfam)[k]
    /\ TimeoutThenValid =>
           /\ qpc = "returned"
           /\ Len(qissued) = 2
           /\ qresult.source = CandidateNames(qfam)[2]

C1_Witness ==
    /\ TimeoutThenValid
    /\ qpc = "returned"
    /\ qresult.source \in {"ExchangeRate-API", "Binance"}

\* C2: every returned result passes the plausibility check: the rate lies in
\* [0.10, 0.50] (fx) or the BTC price in [10000, 500000] (crypto).
C2_OnlyPlausibleReturned ==
    qpc = "returned" =>
        /\ qresult.value.k = "num"
        /\ IF qfam = "fx"
           THEN validate_exchange_rate(qresult.value.n, "BRL", "USD")
           ELSE validate_crypto_price(qresult.value.n, "BTC")

\* the quote field (or the object holding it) is missing from the body
MissingRequired(parser, data) ==
    \/ ~data.isdict
    \/ (parser # "binance" /\ ~data.container)
    \/ ~data.field

FailedOrUnparsable(fam, a) ==
    \/ a.http \in HttpFailures
    \/ MissingRequired(Apis(fam)[a.cand].parser, a.data)

\* C3: a candidate whose request timed out or failed, or whose body lacks a
\* required field, is rejected without ending the call (the next candidate is
\* what is tried next) and is never the one whose result is returned.
C3_UnparsableRejected ==
    \A k \in 1..Len(qattempts) :
        FailedOrUnparsable(qfam, qattempts[k]) =>
            /\ ~qattempts[k].accepted
            /\ ~(qpc = "returned" /\ qresult.source = qattempts[k].name)
            /\ k < Len(qissued) => qissued[k + 1] = k + 1

Occurrences(seq, x) == Cardinality({k \in 1..Len(seq) : seq[k] = x})

Outstanding == Len(qissued) - Len(qattempts)

\* C4: each candidate receives at most one request, at most one request is
\* outstanding at any moment (candidate k+1 is requested only after candidate
\* k's request has completed or expired), and no request is issued after a
\* candidate has been accepted.
C4_OneRequestAtATime ==
    /\ \A c \in 1..Len(Apis(qfam)) : Occurrences(qissued, c) <= 1
    /\ Outstanding \in {0, 1}
    /\ (Outstanding = 1) <=> (qpc = "waiting")
    /\ \A k \in 1..Len(qattempts) : qattempts[k].accepted => Len(qissued) = k

C4_Witness ==
    /\ qpc = "returned"
    /\ Len(qissued) >= 3
    /\ Outstanding = 0

NoneAccepted == \A k \in 1..Len(qattempts) : ~qattempts[k].accepted

\* C5: when every candidate is exhausted without an accepted result the call
\* raises and returns nothing; a result is only ever returned from an accepted
\* provider response, and it carries fallback = False.
C5_ExhaustedRaises ==
    /\ (Len(qattempts) = Len(Apis(qfam)) /\ NoneAccepted) =>
           (qpc \in {"loop", "raised"} /\ qresult = NoResult)
    /\ qpc = "raised" =>
           (Len(qattempts) = Len(Apis(qfam)) /\ NoneAccepted /\ qresult = NoResult)
    /\ qpc = "returned" =>
           /\ qresult.fallback = FALSE
           /\ \E k \in 1..Len(qattempts) :
                  /\ qattempts[k].http = "ok" /\ qattempts[k].accepted
                  /\ qresult.source = qattempts[k].name
    /\ qpc # "returned" => qresult = NoResult

C5_Witness ==
    /\ qpc = "raised"
    /\ Len(qattempts) = Len(Apis(qfam))
    /\ \E k \in 1..Len(qattempts) : qattempts[k].http = "ok"

(***************************************************************************)
(* The plausibility predicates called on their own (tests/test_extract.py  *)
(* 61-87, 192-215): one call of validate_exchange_rate(rate, base, target) *)
(* or validate_crypto_price(price, crypto).                                *)
(***************************************************************************)
MaxRateSample == 70
MaxPriceBlock == 121

RateSamples == (0 - 10) .. MaxRateSample
CurrencyPairs == {<<"BRL", "USD">>, <<"USD", "BRL">>, <<"EUR", "USD">>}
\* prices around every multiple of 5000 from -5000 up: 9999, 10000, 10001, ...
PriceSamples == {b * 5000 + d : b \in (0 - 1) .. MaxPriceBlock, d \in {0 - 1, 0, 1}}
CryptoSymbols == {"BTC", "ETH"}

PyBool(b) == IF b THEN "True" ELSE "False"

InitValidate ==
    /\ \/ /\ vfn = "validate_exchange_rate"
          /\ varg \in {[x |-> r, a |-> cp[1], b |-> cp[2]] :
                           r \in RateSamples, cp \in CurrencyPairs}
       \/ /\ vfn = "validate_crypto_price"
          /\ varg \in {[x |-> p, a |-> c, b |-> ""] :
                           p \in PriceSamples, c \in CryptoSymbols}
    /\ vret = "pending"
    /\ QOff
    /\ TOff
    /\ POff
    /\ EOff

CallValidateExchangeRate ==
    /\ vfn = "validate_exchange_rate"
    /\ vret = "pending"
    /\ vret' = PyBool(validate_exchange_rate(varg.x, varg.a, varg.b))
    /\ UNCHANGED <<vfn, varg, qvars, tvars, pvars, evars>>

CallValidateCryptoPrice ==
    /\ vfn = "validate_crypto_price"
    /\ vret = "pending"
    /\ vret' = PyBool(validate_crypto_price(varg.x, varg.a))
    /\ UNCHANGED <<vfn, varg, qvars, tvars, pvars, evars>>

NextValidate == CallValidateExchangeRate \/ CallValidateCryptoPrice

SpecValidate == InitValidate /\ [][NextValidate]_vars

\* C6: validate_exchange_rate(r, 'BRL', 'USD') is True exactly when
\* 0.10 <= r <= 0.50, bounds included; 0.05, 0.60, 0 and negative rates give
\* False.
C6_ExchangeRateBand ==
    (vfn = "validate_exchange_rate" /\ vret # "pending"
         /\ varg.a = "BRL" /\ varg.b = "USD") =>
        /\ vret \in {"True", "False"}
        /\ (vret = "True") <=> (10 <= varg.x /\ varg.x <= 50)
        /\ varg.x \in {5, 60, 0} => vret = "False"
        /\ varg.x < 0 => vret = "False"
        /\ varg.x \in {10, 18, 20, 50} => vret = "True"

C6_Witness ==
    /\ vfn = "validate_exchange_rate"
    /\ varg = [x |-> 50, a |-> "BRL", b |-> "USD"]
    /\ vret = "True"

Null == [k |-> "null", n |-> 0, s |-> <<>>]
Num(n) == [k |-> "num", n |-> n, s |-> <<>>]
Text(s) == [k |-> "str", n |-> 0, s |-> s]
Date(d) == [k |-> "date", n |-> d, s |-> <<>>]

IsNull(c) == c.k = "null"

Frame(cols, obj, dt, rows) == [cols |-> cols, obj |-> obj, dt |-> dt, rows |-> rows]
EmptyFrame == Frame({}, {}, {}, <<>>)

ColumnCells(df, col) == {df.rows[i].v[col] : i \in 1..Len(df.rows)}

\* the rows at the positions in S, in their original order
Pick(rows, S) ==
    [k \in 1..Cardinality(S) |->
        rows[CHOOSE i \in S : Cardinality({j \in S : j < i}) = k - 1]]

\* a stage either returns a frame or raises
Ok(df) == [err |-> FALSE, df |-> df]
Raise == [err |-> TRUE, df |-> EmptyFrame]

\* drop_duplicates that removes nothing
drop_duplicates_none(df) == df

(***************************************************************************)
(* pandas primitives used by clean_data.                                   *)
(***************************************************************************)
\* DataFrame.drop_duplicates(): keeps the first of the rows that are equal in
\* every column (missing values compare equal); the index is not compared
drop_duplicates(df) ==
    [df EXCEPT !.rows =
        Pick(df.rows, {i \in 1..Len(df.rows) :
                           \A j \in 1..(i - 1) : df.rows[j].v # df.rows[i].v})]

RECURSIVE LStrip(_)
LStrip(s) == IF s # <<>> /\ Head(s) = " " THEN LStrip(Tail(s)) ELSE s

RECURSIVE RStrip(_)
RStrip(s) ==
    IF s # <<>> /\ s[Len(s)] = " " THEN RStrip(SubSeq(s, 1, Len(s) - 1)) ELSE s

\* Series.str.<method> on an object column: applied to the texts, a missing
\* value stays missing, any other value becomes missing
StrStrip(c) == IF c.k = "str" THEN Text(RStrip(LStrip(c.s))) ELSE Null

\* the .str accessor raises AttributeError unless the column has dtype object
\* and its values are texts (or all missing)
StrAccessorOk(df, col) ==
    /\ col \in df.obj
    /\ \/ \A c \in ColumnCells(df, col) : IsNull(c)
       \/ \E c \in ColumnCells(df, col) : c.k = "str"

StripColumns(df, textcols) ==
    [df EXCEPT !.rows =
        [i \in 1..Len(df.rows) |->
            [df.rows[i] EXCEPT !.v =
                [c \in df.cols |-> IF c \in textcols THEN StrStrip(@[c]) ELSE @[c]]]]]

\* DataFrame.dropna(subset=[col])
dropna(df, col) ==
    [df EXCEPT !.rows =
        Pick(df.rows, {i \in 1..Len(df.rows) : ~IsNull(df.rows[i].v[col])})]

\* df[col] = df[col].fillna(value); filling a text into a column that is not
\* of dtype object makes it one
fillna_none(df, col, value) == df

fillna(df, col, value) ==
    [df EXCEPT
        !.rows = [i \in 1..Len(df.rows) |->
                     [df.rows[i] EXCEPT !.v[col] = IF IsNull(@) THEN value ELSE @]],
        !.obj = IF value.k = "str" /\ (\E c \in ColumnCells(df, col) : IsNull(c))
                THEN @ \cup {col} ELSE @]

(***************************************************************************)
(* clean_data (transform.py 17-67).                                        *)
(***************************************************************************)
\* 'N\~ao Identificado', written in ASCII
Sentinel == <<"Nao Identificado">>

\* the stage with its steps in the other order: defaults first, duplicates last
clean_data_dedup_last(df) ==
    LET text_columns == df.obj
    IN IF \E col \in text_columns : ~StrAccessorOk(df, col)
       THEN Raise
       ELSE LET d2 == StripColumns(df, text_columns)
                d3 == IF "Preco_Local" \in d2.cols THEN dropna(d2, "Preco_Local") ELSE d2
                d4 == IF "Quantidade" \in d3.cols
                      THEN fillna(d3, "Quantidade", Num(1)) ELSE d3
                d5 == IF "Produto" \in d4.cols
                      THEN fillna(d4, "Produto", Text(Sentinel)) ELSE d4
            IN Ok(drop_duplicates(d5))

clean_data(df) ==
    LET d1 == drop_duplicates(df)
        text_columns == d1.obj
    IN IF \E col \in text_columns : ~StrAccessorOk(d1, col)
       THEN Raise
       ELSE LET d2 == StripColumns(d1, text_columns)
                d3 == IF "Preco_Local" \in d2.cols THEN dropna(d2, "Preco_Local") ELSE d2
                d4 == IF "Quantidade" \in d3.cols
                      THEN fillna(d3, "Quantidade", Num(1)) ELSE d3
                d5 == IF "Produto" \in d4.cols
                      THEN fillna(d4, "Produto", Text(Sentinel)) ELSE d4
            IN Ok(d5)

(***************************************************************************)
(* standardize_data (transform.py 70-107).                                 *)
(***************************************************************************)
\* the numbers and dates the modelled texts can spell
SpelledNumbers == {0, 1, 2, 3, 5, 50, 200, 500, 3500}

ParseNumber(s) ==
    IF Len(s) = 1 /\ \E n \in SpelledNumbers : ToString(n) = s[1]
    THEN Num(CHOOSE n \in SpelledNumbers : ToString(n) = s[1])
    ELSE Null

ParseDate(s) ==
    IF s = <<"2024-01-01">> THEN Date(20240101)
    ELSE IF s = <<"2024-01-02">> THEN Date(20240102)
    ELSE IF s = <<"2024-01-03">> THEN Date(20240103)
    ELSE Null

\* pd.to_datetime(x, errors='coerce'): a number is nanoseconds since the epoch
ToDatetime(c) ==
    IF c.k = "str" THEN ParseDate(c.s)
    ELSE IF c.k = "num" THEN Date(19700101)
    ELSE c

\* pd.to_numeric(x, errors='coerce')
ToNumeric(c) ==
    IF c.k = "str" THEN ParseNumber(c.s)
    ELSE IF c.k = "num" THEN c
    ELSE Null

LowerToken(t) ==
    IF t = "Laptop" THEN "laptop"
    ELSE IF t = "Mouse" THEN "mouse"
    ELSE IF t = "Teclado" THEN "teclado"
    ELSE IF t = "Nao Identificado" THEN "nao identificado"
    ELSE t

StrLower(c) ==
    IF c.k = "str" THEN Text([i \in 1..Len(c.s) |-> LowerToken(c.s[i])]) ELSE Null

MapColumn(df, col, F(_)) ==
    [df EXCEPT !.rows =
        [i \in 1..Len(df.rows) |-> [df.rows[i] EXCEPT !.v[col] = F(@)]]]

LowerColumns == {"Produto", "Categoria", "Regiao"}
NumericColumns == {"Preco_Local", "Quantidade"}

standardize_data(df) ==
    LET d1 == IF "Data_Venda" \in df.cols
              THEN [MapColumn(df, "Data_Venda", ToDatetime) EXCEPT
                        !.obj = @ \ {"Data_Venda"}, !.dt = @ \cup {"Data_Venda"}]
              ELSE df
        lower == LowerColumns \cap d1.cols
        numeric == NumericColumns \cap d1.cols
    IN IF \E col \in lower : ~StrAccessorOk(d1, col)
       THEN Raise
       ELSE Ok([d1 EXCEPT
                   !.rows = [i \in 1..Len(d1.rows) |->
                       [d1.rows[i] EXCEPT !.v =
                           [c \in d1.cols |->
                               IF c \in lower THEN StrLower(@[c])
                               ELSE IF c \in numeric THEN ToNumeric(@[c])
                               ELSE @[c]]]],
                   !.obj = @ \ numeric])

(***************************************************************************)
(* enrich_data (transform.py 110-166).                                     *)
(***************************************************************************)
\* Series * float and Series * Series: a missing operand gives a missing value
Times(a, b) == IF a.k = "num" /\ b.k = "num" THEN Num(a.n * b.n) ELSE Null

\* Series.dt.year / .month / .dayofweek (Monday = 0) / .day_name()
YearOf(d) == d \div 10000
MonthOf(d) == (d \div 100) % 100
DayOf(d) == d % 100

DayOfWeek(d) ==
    LET t == <<0, 3, 2, 5, 0, 3, 5, 1, 4, 6, 2, 4>>
        m == MonthOf(d)
        y == IF m < 3 THEN YearOf(d) - 1 ELSE YearOf(d)
        sunday0 == (y + (y \div 4) - (y \div 100) + (y \div 400) + t[m] + DayOf(d)) % 7
    IN (sunday0 + 6) % 7

DayNames == <<"Monday", "Tuesday", "Wednesday", "Thursday", "Friday", "Saturday", "Sunday">>

DtField(c, field) ==
    IF c.k # "date" THEN Null
    ELSE IF field = "Ano" THEN Num(YearOf(c.n))
    ELSE IF field = "Mes" THEN Num(MonthOf(c.n))
    ELSE IF field = "Dia_Semana" THEN Num(DayOfWeek(c.n))
    ELSE Text(<<DayNames[DayOfWeek(c.n) + 1]>>)

\* pd.cut(x, bins=[0, 50, 200, 500, inf], labels=[...]): right-closed bins, a
\* value outside every bin (x <= 0) or missing gets no label.  Values are in
\* hundredths of a dollar.
Bin1 == 5000
Bin2 == 20000
Bin3 == 50000

\* the same bins closed on the left: [0, 50), [50, 200), [200, 500), [500, inf)
CutLeftClosed(c) ==
    IF c.k # "num" \/ c.n < 0 THEN Null
    ELSE IF c.n < Bin1 THEN Text(<<"Baixo">>)
    ELSE IF c.n < Bin2 THEN Text(<<"Medio">>)
    ELSE IF c.n < Bin3 THEN Text(<<"Alto">>)
    ELSE Text(<<"Premium">>)

Cut(c) ==
    IF c.k # "num" \/ c.n <= 0 THEN Null
    ELSE IF c.n <= Bin1 THEN Text(<<"Baixo">>)
    ELSE IF c.n <= Bin2 THEN Text(<<"Medio">>)
    ELSE IF c.n <= Bin3 THEN Text(<<"Alto">>)
    ELSE Text(<<"Premium">>)

\* df[col] = values: adds the column or overwrites it
Assign(df, col, F(_), obj, dt) ==
    [df EXCEPT
        !.cols = @ \cup {col},
        !.obj = IF obj THEN @ \cup {col} ELSE @ \ {col},
        !.dt = IF dt THEN @ \cup {col} ELSE @ \ {col},
        !.rows = [i \in 1..Len(df.rows) |->
                     [df.rows[i] EXCEPT !.v =
                         [c \in df.cols \cup {col} |->
                             IF c = col THEN F(df.rows[i].v) ELSE df.rows[i].v[c]]]]]

HasText(df, col) == \E c \in ColumnCells(df, col) : c.k = "str"

\* enrich_data writing the converted price over Preco_Local
enrich_data_inplace(df, rate, now) ==
    Ok(Assign(Assign(df, "Preco_Local",
                     LAMBDA v : Times(v["Preco_Local"], Num(rate)), FALSE, FALSE),
              "Data_Processamento", LAMBDA v : Text(<<ToString(now)>>), TRUE, FALSE))

enrich_data(df, rate, now) ==
    LET hasPrice == "Preco_Local" \in df.cols
        hasQty == "Quantidade" \in df.cols
        hasDate == "Data_Venda" \in df.cols
        d0 == Assign(df, "Taxa_Cambio", LAMBDA v : Num(rate), FALSE, FALSE)
        d1 == IF hasPrice
              THEN Assign(d0, "Preco_USD",
                          LAMBDA v : Times(v["Preco_Local"], Num(rate)), FALSE, FALSE)
              ELSE d0
        d2 == IF hasQty /\ "Preco_USD" \in d1.cols
              THEN Assign(d1, "Valor_Total_USD",
                          LAMBDA v : Times(v["Quantidade"], v["Preco_USD"]), FALSE, FALSE)
              ELSE d1
        d3 == IF hasDate
              THEN Assign(Assign(Assign(Assign(d2,
                       "Ano", LAMBDA v : DtField(v["Data_Venda"], "Ano"), FALSE, FALSE),
                       "Mes", LAMBDA v : DtField(v["Data_Venda"], "Mes"), FALSE, FALSE),
                       "Dia_Semana",
                           LAMBDA v : DtField(v["Data_Venda"], "Dia_Semana"), FALSE, FALSE),
                       "Nome_Dia",
                           LAMBDA v : DtField(v["Data_Venda"], "Nome_Dia"), TRUE, FALSE)
              ELSE d2
        d4 == IF "Valor_Total_USD" \in d3.cols
              THEN Assign(d3, "Categoria_Valor",
                          LAMBDA v : Cut(v["Valor_Total_USD"]), FALSE, FALSE)
              ELSE d3
        d5 == Assign(d4, "Data_Processamento",
                     LAMBDA v : Text(<<ToString(now)>>), TRUE, FALSE)
    IN IF \/ hasPrice /\ HasText(df, "Preco_Local")
          \/ hasQty /\ "Preco_USD" \in d1.cols /\ HasText(df, "Quantidade")
          \/ hasDate /\ "Data_Venda" \notin df.dt
       THEN Raise
       ELSE Ok(d5)

(***************************************************************************)
(* aggregate_data (transform.py 169-206).  A mean is kept as the ratio     *)
(* [num, den] of the sum and the count; den = 0 is the division by zero    *)
(* (NaN or inf).                                                           *)
(***************************************************************************)
Ratio(a, b) == [num |-> a, den |-> b]

NonNull(rows, col) == {i \in 1..Len(rows) : ~IsNull(rows[i].v[col])}

RECURSIVE SumTo(_, _, _)
SumTo(rows, col, i) ==
    IF i = 0 THEN 0
    ELSE SumTo(rows, col, i - 1) + (IF rows[i].v[col].k = "num" THEN rows[i].v[col].n ELSE 0)

\* 'sum' skips missing values
AggSum(rows, col) == SumTo(rows, col, Len(rows))

\* 'count' is the number of values that are not missing
AggCount(rows, col) == Cardinality(NonNull(rows, col))

\* 'mean' skips missing values
AggMean(rows, col) == Ratio(AggSum(rows, col), AggCount(rows, col))

\* 'nunique' counts the distinct values that are not missing
AggNunique(rows, col) == Cardinality({rows[i].v[col] : i \in NonNull(rows, col)})

\* df.groupby(col): one group per distinct key that is not missing, keys sorted
GroupKeys(df, col) ==
    LET keys == {c.n : c \in {x \in ColumnCells(df, col) : x.k = "date"}}
    IN [k \in 1..Cardinality(keys) |->
           CHOOSE d \in keys : Cardinality({e \in keys : e < d}) = k - 1]

GroupRows(df, col, key) ==
    Pick(df.rows, {i \in 1..Len(df.rows) : df.rows[i].v[col] = Date(key)})

AggregatedColumns == {"Data_Venda", "Valor_Total_USD", "Quantidade", "Preco_USD", "Produto"}

aggregate_data(df) ==
    IF ~(AggregatedColumns \subseteq df.cols)
    THEN [err |-> TRUE, agg |-> <<>>]
    ELSE LET keys == GroupKeys(df, "Data_Venda")
         IN [err |-> FALSE,
             agg |-> [k \in 1..Len(keys) |->
                 LET g == GroupRows(df, "Data_Venda", keys[k])
                     total == AggSum(g, "Valor_Total_USD")
                     count == AggCount(g, "Valor_Total_USD")
                     qty == AggSum(g, "Quantidade")
                 IN [Data_Venda |-> keys[k],
                     Total_Vendas_USD |-> total,
                     Ticket_Medio_USD |-> AggMean(g, "Valor_Total_USD"),
                     Numero_Transacoes |-> count,
                     Quantidade_Total |-> qty,
                     Preco_Medio_USD |-> AggMean(g, "Preco_USD"),
                     Produtos_Unicos |-> AggNunique(g, "Produto"),
                     Itens_Por_Transacao |-> Ratio(qty, count)]]]

(***************************************************************************)
(* The datasets handed to the transform stages.  Rows are drawn from a set *)
(* of sales records covering: the three records of the aggregation example,*)
(* surrounding whitespace, a missing quantity / product / price, the       *)
(* defaults already in place, an unparsable text in the date, quantity and *)
(* price columns, and a zero quantity.                                     *)
(* A column holding a text is read as dtype object, and so is every column *)
(* of a dataset without rows; origin "csv" reads                           *)
(* every value of such a column as text (pd.read_csv), origin "mixed"      *)
(* leaves numbers beside texts (pd.read_json, pd.concat of several files). *)
(***************************************************************************)
MaxRows == 2
MaxApply == 2

RawColumns == {"Data_Venda", "Produto", "Quantidade", "Preco_Local"}

Rec(d, p, q, pr) ==
    [Data_Venda |-> d, Produto |-> p, Quantidade |-> q, Preco_Local |-> pr]

D1 == Text(<<"2024-01-01">>)
D2 == Text(<<"2024-01-02">>)

RowSamples ==
    { Rec(D1, Text(<<"Laptop">>), Num(2), Num(3500)),
      Rec(D1, Text(<<"Mouse">>), Num(5), Num(50)),
      Rec(D2, Text(<<"Teclado">>), Num(3), Num(200)),
      Rec(D1, Text(<<" ", "Laptop", " ">>), Num(2), Num(3500)),
      Rec(D1, Text(<<"Laptop">>), Null, Num(3500)),
      Rec(D1, Text(<<"Laptop">>), Num(1), Num(3500)),
      Rec(D1, Null, Num(2), Num(3500)),
      Rec(D1, Text(Sentinel), Num(2), Num(3500)),
      Rec(D2, Text(<<"Mouse">>), Num(5), Null),
      Rec(Text(<<"n/a">>), Text(<<"Mouse">>), Num(5), Num(50)),
      Rec(D2, Text(<<"Mouse">>), Text(<<"x">>), Num(50)),
      Rec(D2, Text(<<"Teclado">>), Num(3), Text(<<"x">>)),
      Rec(D2, Text(<<"Teclado">>), Num(0), Num(200)),
      Rec(D2, Text(<<"Mouse">>), Num(2), Num(500)),
      Rec(D2, Text(<<"Mouse">>), Num(5), Num(500)) }

\* the three records of the aggregation example
ExampleRows ==
    << Rec(D1, Text(<<"Laptop">>), Num(2), Num(3500)),
       Rec(D1, Text(<<"Mouse">>), Num(5), Num(50)),
       Rec(D2, Text(<<"Teclado">>), Num(3), Num(200)) >>

RowSeqs == UNION {[1..n -> RowSamples] : n \in 0..MaxRows} \cup {ExampleRows}

AsRead(c, textual, origin) ==
    IF origin = "csv" /\ textual /\ c.k = "num" THEN Text(<<ToString(c.n)>>) ELSE c

RawFrame(recs, origin) ==
    LET textual == IF Len(recs) = 0 THEN RawColumns
                   ELSE {col \in RawColumns : \E i \in 1..Len(recs) : recs[i][col].k = "str"}
    IN Frame(RawColumns, textual, {},
             [i \in 1..Len(recs) |->
                 [ix |-> i - 1,
                  v |-> [col \in RawColumns |->
                            AsRead(recs[i][col], col \in textual, origin)]]])

TransformRates == {18, 20}

InitTransform ==
    /\ tstage = "raw"
    /\ \E recs \in RowSeqs, origin \in {"csv", "mixed"} : tdf = RawFrame(recs, origin)
    /\ tprev = EmptyFrame
    /\ tagg = <<>>
    /\ trate = 0
    /\ tapplied = 0
    /\ tclock = 0
    /\ VOff
    /\ QOff
    /\ POff
    /\ EOff

\* df = clean_data(df); the stage may be run again on its own output
Clean ==
    /\ tstage = "raw" \/ (tstage = "clean" /\ tapplied < MaxApply)
    /\ LET r == clean_data(tdf)
       IN IF r.err
          THEN /\ tstage' = "error"
               /\ UNCHANGED <<tdf, tprev, tapplied>>
          ELSE /\ tstage' = "clean"
               /\ tdf' = r.df
               /\ tprev' = tdf
               /\ tapplied' = IF tstage = "clean" THEN tapplied + 1 ELSE 1
    /\ UNCHANGED <<tagg, trate, tclock, qvars, vvars, pvars, evars>>

\* df = standardize_data(df); the stage may be run again on its own output
Standardize ==
    /\ tstage = "clean" \/ (tstage = "std" /\ tapplied < MaxApply)
    /\ LET r == standardize_data(tdf)
       IN IF r.err
          THEN /\ tstage' = "error"
               /\ UNCHANGED <<tdf, tprev, tapplied>>
          ELSE /\ tstage' = "std"
               /\ tdf' = r.df
               /\ tprev' = tdf
               /\ tapplied' = IF tstage = "std" THEN tapplied + 1 ELSE 1
    /\ UNCHANGED <<tagg, trate, tclock, qvars, vvars, pvars, evars>>

\* df = enrich_data(df, exchange_rate, crypto_info); the stage may be run
\* again on its own output
Enrich ==
    /\ tstage = "std" \/ (tstage = "enriched" /\ tapplied < MaxApply)
    /\ tclock' = tclock + 1
    /\ trate' \in TransformRates
    /\ LET r == enrich_data(tdf, trate', tclock')
       IN IF r.err
          THEN /\ tstage' = "error"
               /\ UNCHANGED <<tdf, tprev, tapplied>>
          ELSE /\ tstage' = "enriched"
               /\ tdf' = r.df
               /\ tprev' = tdf
               /\ tapplied' = IF tstage = "enriched" THEN tapplied + 1 ELSE 1
    /\ UNCHANGED <<tagg, qvars, vvars, pvars, evars>>

\* df_aggregated = aggregate_data(df)
Aggregate ==
    /\ tstage = "enriched"
    /\ LET r == aggregate_data(tdf)
       IN IF r.err
          THEN /\ tstage' = "error"
               /\ UNCHANGED <<tagg, tapplied>>
          ELSE /\ tstage' = "aggregated"
               /\ tagg' = r.agg
               /\ tapplied' = 1
    /\ UNCHANGED <<tdf, tprev, trate, tclock, qvars, vvars, pvars, evars>>

NextTransform == Clean \/ Standardize \/ Enrich \/ Aggregate

SpecTransform == InitTransform /\ [][NextTransform]_vars

(***************************************************************************)
(* Properties of the transform stages (SpecTransform).                     *)
(***************************************************************************)
\* C8: clean_data is idempotent: applying it to its own output returns that
\* output unchanged (no further row removed, no value changed).
C8_CleanIdempotent ==
    (tstage = "clean" /\ tapplied >= 2) => tdf = tprev

CleanColumns == {"Preco_Local", "Quantidade", "Produto"}

InputRow(ix) == CHOOSE r \in {tprev.rows[i] : i \in 1..Len(tprev.rows)} : r.ix = ix

FirstOccurrence(rows, i) == \A j \in 1..(i - 1) : rows[j].v # rows[i].v

\* a number in a column read as text: the string accessor blanks it
BlankedByStrip(df, col, c) == col \in df.obj /\ c.k \notin {"str", "null"}

\* C9: after clean_data, for an input with the Preco_Local, Quantidade and
\* Produto columns: no output row has a missing price, quantity or product; an
\* output row whose input quantity was missing has quantity 1, one whose input
\* product was missing has the sentinel name, and its price is the input's
\* price (never imputed); every input row that is not a duplicate of an
\* earlier row and whose price is present (and, in a price column read as
\* text, is a string, so that stripping keeps it) is kept, whatever its
\* quantity and product are.
C9_CleanNullHandling ==
    (tstage = "clean" /\ CleanColumns \subseteq tprev.cols) =>
        /\ \A k \in 1..Len(tdf.rows) :
               LET out == tdf.rows[k].v
                   in == InputRow(tdf.rows[k].ix).v
               IN /\ ~IsNull(out["Preco_Local"])
                  /\ ~IsNull(out["Quantidade"])
                  /\ ~IsNull(out["Produto"])
                  /\ ~IsNull(in["Preco_Local"])
                  /\ out["Preco_Local"] = in["Preco_Local"]
                  /\ IsNull(in["Quantidade"]) => out["Quantidade"] = Num(1)
                  /\ IsNull(in["Produto"]) => out["Produto"] = Text(<<"Nao Identificado">>)
        /\ \A i \in 1..Len(tprev.rows) :
               (/\ FirstOccurrence(tprev.rows, i)
                /\ ~IsNull(tprev.rows[i].v["Preco_Local"])
                /\ ~BlankedByStrip(tprev, "Preco_Local", tprev.rows[i].v["Preco_Local"]))
               => \E k \in 1..Len(tdf.rows) : tdf.rows[k].ix = tprev.rows[i].ix

C9_Witness ==
    /\ tstage = "clean"
    /\ tapplied = 1
    /\ Len(tprev.rows) = 2
    /\ IsNull(tprev.rows[1].v["Quantidade"])
    /\ ~IsNull(tprev.rows[1].v["Preco_Local"])
    /\ IsNull(tprev.rows[2].v["Preco_Local"])
    /\ Len(tdf.rows) = 1
    /\ tdf.rows[1].ix = 0
    /\ tdf.rows[1].v["Quantidade"] = Num(1)

RECURSIVE SumOver(_, _)
SumOver(S, f) ==
    IF S = {} THEN 0
    ELSE LET x == CHOOSE y \in S : TRUE IN f[x] + SumOver(S \ {x}, f)

NumberOr0(c) == IF c.k = "num" THEN c.n ELSE 0

RowsOfDate(d) == {i \in 1..Len(tdf.rows) : tdf.rows[i].v["Data_Venda"] = Date(d)}

SaleDates == {tdf.rows[i].v["Data_Venda"].n :
                 i \in {j \in 1..Len(tdf.rows) : tdf.rows[j].v["Data_Venda"].k = "date"}}

\* C10: aggregate_data yields exactly one row per distinct sale date of its
\* input, and the row of a date reports Numero_Transacoes = the number of input
\* rows with that date, Quantidade_Total = the sum of their quantities and
\* Total_Vendas_USD = the sum of their Valor_Total_USD.
C10_AggregatePerDate ==
    tstage = "aggregated" =>
        /\ Len(tagg) = Cardinality(SaleDates)
        /\ {tagg[k].Data_Venda : k \in 1..Len(tagg)} = SaleDates
        /\ \A k \in 1..Len(tagg) :
               LET g == RowsOfDate(tagg[k].Data_Venda)
               IN /\ tagg[k].Numero_Transacoes = Cardinality(g)
                  /\ tagg[k].Quantidade_Total =
                         SumOver(g, [i \in g |-> NumberOr0(tdf.rows[i].v["Quantidade"])])
                  /\ tagg[k].Total_Vendas_USD =
                         SumOver(g, [i \in g |-> NumberOr0(tdf.rows[i].v["Valor_Total_USD"])])

\* The example of C10: the records (2024-01-01, 2, 3500), (2024-01-01, 5, 50),
\* (2024-01-02, 3, 200) at rate 0.18 give for 2024-01-01 a count of 2, a
\* quantity sum of 7 and a total of (2*3500 + 5*50) * 0.18 = 1305.00.
AggregateExample ==
    (/\ tstage = "aggregated"
     /\ trate = 18
     /\ Len(tdf.rows) = 3
     /\ \A i \in 1..3 : \A c \in {"Quantidade", "Preco_Local"} :
            tdf.rows[i].v[c] = ExampleRows[i][c]
     /\ \A i \in 1..3 : tdf.rows[i].v["Data_Venda"] = ParseDate(ExampleRows[i]["Data_Venda"].s))
    => /\ Len(tagg) = 2
       /\ tagg[1].Data_Venda = 20240101
       /\ tagg[1].Numero_Transacoes = 2
       /\ tagg[1].Quantidade_Total = 7
       /\ tagg[1].Total_Vendas_USD = 130500

AggregateExampleReached ==
    /\ tstage = "aggregated"
    /\ trate = 18
    /\ Len(tdf.rows) = 3
    /\ Len(tagg) = 2
    /\ tagg[1].Total_Vendas_USD = 130500

\* the columns enrich_data computes
EnrichedColumns ==
    {"Taxa_Cambio", "Preco_USD", "Valor_Total_USD", "Ano", "Mes", "Dia_Semana",
     "Nome_Dia", "Categoria_Valor", "Data_Processamento"}

\* the columns in cs are present after the stage, with the same rows in the
\* same order and the same values
ColumnsKept(cs) ==
    /\ cs \subseteq tdf.cols
    /\ Len(tdf.rows) = Len(tprev.rows)
    /\ \A i \in 1..Len(tprev.rows) :
           /\ tdf.rows[i].ix = tprev.rows[i].ix
           /\ \A c \in cs : tdf.rows[i].v[c] = tprev.rows[i].v[c]

EnrichAddsColumns ==
    {"Data_Venda", "Preco_Local", "Quantidade"} \subseteq tprev.cols =>
        {"Preco_USD", "Valor_Total_USD", "Ano", "Mes", "Dia_Semana"} \subseteq tdf.cols

\* C11 as stated: enrich_data leaves every column of its input present with
\* unchanged values and the number of rows unchanged, and an input with date,
\* price and quantity gets Preco_USD, Valor_Total_USD, Ano, Mes, Dia_Semana.
C11_EnrichKeepsEveryColumn ==
    tstage = "enriched" => ColumnsKept(tprev.cols) /\ EnrichAddsColumns

\* C11 amended: enrich_data leaves the number and order of rows unchanged and
\* every input column present; every input column other than the ones it
\* computes itself (EnrichedColumns) keeps its values; an input with date,
\* price and quantity gets Preco_USD, Valor_Total_USD, Ano, Mes, Dia_Semana.
C11_EnrichKeepsOtherColumns ==
    tstage = "enriched" =>
        /\ tprev.cols \subseteq tdf.cols
        /\ ColumnsKept(tprev.cols \ EnrichedColumns)
        /\ EnrichAddsColumns

C11_Witness ==
    /\ tstage = "enriched"
    /\ tapplied = 1
    /\ Len(tdf.rows) = 2
    /\ tdf.rows[1].v["Preco_Local"] = Num(3500)
    /\ tdf.rows[1].v["Preco_USD"] = Num(3500 * 18)
    /\ tdf.rows[1].v["Ano"] = Num(2024)
    /\ "Preco_USD" \notin tprev.cols

(***************************************************************************)
(* The database (load.py).  A data table is the sequence of its rows; a    *)
(* table that does not exist holds no rows.  etl_metadata, the ledger, is  *)
(* [exists, rows]; its rows are in execution_id order.                     *)
(***************************************************************************)
DetailedTable == "vendas_detalhadas"
AggregatedTable == "vendas_agregadas"

NoLedger == [exists |-> FALSE, rows |-> <<>>]

Database == [det |-> dbdet, agg |-> dbagg, meta |-> dbmeta]

\* the rows df.to_sql(index=False) sends: the values without the index
DetailedRows(df) == [i \in 1..Len(df.rows) |-> df.rows[i].v]

\* df.to_sql writing after the rows already there, whatever the mode
to_sql_keep(table, rows, load_mode) == table \o rows

\* df.to_sql(name, con, if_exists=load_mode, index=False, chunksize=1000)
to_sql(table, rows, load_mode) ==
    IF load_mode = "replace" THEN rows ELSE table \o rows

\* what a to_sql that raised may leave behind: the table as it was, or, in
\* replace mode, the table dropped and not refilled
FailedWrite(table, load_mode) ==
    {table} \cup (IF load_mode = "replace" THEN {<<>>} ELSE {})

\* CREATE TABLE etl_metadata with the old table dropped first
CreateFresh(meta) == [exists |-> TRUE, rows |-> <<>>]

\* CREATE TABLE IF NOT EXISTS etl_metadata (...)
CreateIfNotExists(meta) == [meta EXCEPT !.exists = TRUE]

LedgerEntry(status, records, tables, notes) ==
    [pipeline_status |-> status, records_processed |-> records,
     tables_loaded |-> tables, notes |-> notes]

\* INSERT INTO etl_metadata ... VALUES (...)
InsertEntry(meta, e) == [meta EXCEPT !.rows = Append(@, e)]

\* the record written after both loads succeeded (load.py 255-262)
SuccessEntry(df, load_mode) ==
    LedgerEntry("SUCCESS", Len(df.rows), <<DetailedTable, AggregatedTable>>, load_mode)

\* the failure record with the processed count of the dataset
FailedEntryCounted(df, notes) ==
    LedgerEntry("FAILED", Len(df.rows), <<DetailedTable, AggregatedTable>>, notes)

\* the record written by the except branch (load.py 277-284)
FailedEntry(df, notes) == LedgerEntry("FAILED", 0, <<>>, notes)

\* `return True` (load.py 267): the value of log_pipeline_execution is dropped
ReturnAfterSuccessLog(logged) == "True"

\* the except branch of load_all_data letting the error go up
LoadHandlerReraises(logged) == "raised"

\* `return False` at the end of the except branch (load.py 288), after the
\* inner try/except swallowed whatever the FAILED record raised
LoadHandlerReturn(logged) == "False"

(***************************************************************************)
(* load_all_data (load.py 205-288), one action per statement.              *)
(* Every database operation may fail.                                      *)
(***************************************************************************)
\* engine = create_database_connection(); raising leaves `engine` unbound
LConnect ==
    /\ ppc = "load_connect"
    /\ ptrace' = Append(ptrace, "load")
    /\ \/ lengine' = TRUE /\ ppc' = "load_meta"
       \/ lengine' = FALSE /\ ppc' = "load_failed"
    /\ UNCHANGED <<pkind, pmode, pmain, pret, pexit, pcalls, psnap,
                   lmeta, lsd, lsa, llog, lret, dbvars, tvars, qvars, vvars, evars>>

\* create_metadata_table(engine): its result is not looked at
LCreateMetadata ==
    /\ ppc = "load_meta"
    /\ \/ dbmeta' = CreateIfNotExists(dbmeta) /\ lmeta' = "True"
       \/ dbmeta' = dbmeta /\ lmeta' = "False"
    /\ ppc' = "load_detailed"
    /\ UNCHANGED <<pkind, pmode, pmain, ptrace, pret, pexit, pcalls, psnap,
                   lengine, lsd, lsa, llog, lret, dbdet, dbagg, tvars, qvars, vvars, evars>>

\* a load that gives up after a failed first write
AfterDetailedWriteStops(success_detailed) ==
    IF success_detailed = "True" THEN "load_aggregated" ELSE "load_failed"

\* the statement after the first write (load.py 240): the second write, with
\* no test of success_detailed in between
AfterDetailedWrite(success_detailed) == "load_aggregated"

\* success_detailed = load_to_database(df_detailed, 'vendas_detalhadas', ...)
LWriteDetailed ==
    /\ ppc = "load_detailed"
    /\ ptrace' = Append(ptrace, DetailedTable)
    /\ \/ dbdet' = to_sql(dbdet, DetailedRows(tdf), pmode) /\ lsd' = "True"
       \/ dbdet' \in FailedWrite(dbdet, pmode) /\ lsd' = "False"
    /\ ppc' = AfterDetailedWrite(lsd')
    /\ UNCHANGED <<pkind, pmode, pmain, pret, pexit, pcalls, psnap,
                   lengine, lmeta, lsa, llog, lret, dbagg, dbmeta, tvars, qvars, vvars, evars>>

\* success_aggregated = load_to_database(df_aggregated, 'vendas_agregadas', ...)
\* and the test `if success_detailed and success_aggregated`
LWriteAggregated ==
    /\ ppc = "load_aggregated"
    /\ ptrace' = Append(ptrace, AggregatedTable)
    /\ \/ dbagg' = to_sql(dbagg, tagg, pmode) /\ lsa' = "True"
       \/ dbagg' \in FailedWrite(dbagg, pmode) /\ lsa' = "False"
    /\ ppc' = IF lsd = "True" /\ lsa' = "True" THEN "load_verify" ELSE "load_failed"
    /\ UNCHANGED <<pkind, pmode, pmain, pret, pexit, pcalls, psnap,
                   lengine, lmeta, lsd, llog, lret, dbdet, dbmeta, tvars, qvars, vvars, evars>>

\* verify_load twice (reads only), then log_pipeline_execution('SUCCESS', ...)
\* and `return True`
LLogSuccess ==
    /\ ppc = "load_verify"
    /\ \/ /\ dbmeta.exists
          /\ dbmeta' = InsertEntry(dbmeta, SuccessEntry(tdf, pmode))
          /\ llog' = "True"
       \/ dbmeta' = dbmeta /\ llog' = "False"
    /\ lret' = ReturnAfterSuccessLog(llog')
    /\ ppc' = "load_returned"
    /\ UNCHANGED <<pkind, pmode, pmain, ptrace, pret, pexit, pcalls, psnap,
                   lengine, lmeta, lsd, lsa, dbdet, dbagg, tvars, qvars, vvars, evars>>

\* except Exception: log_pipeline_execution('FAILED', 0, [], ...) inside
\* try/except: pass (an unbound `engine` raises there), then `return False`
LLogFailed ==
    /\ ppc = "load_failed"
    /\ \/ /\ lengine
          /\ dbmeta.exists
          /\ dbmeta' = InsertEntry(dbmeta, FailedEntry(tdf, "write"))
          /\ llog' = "True"
       \/ lengine /\ dbmeta' = dbmeta /\ llog' = "False"
       \/ ~lengine /\ dbmeta' = dbmeta /\ llog' = "raised"
    /\ lret' = LoadHandlerReturn(llog')
    /\ ppc' = "load_returned"
    /\ UNCHANGED <<pkind, pmode, pmain, ptrace, pret, pexit, pcalls, psnap,
                   lengine, lmeta, lsd, lsa, dbdet, dbagg, tvars, qvars, vvars, evars>>

(***************************************************************************)
(* extract_all_sources as run_pipeline sees it (extract.py 492-537): the   *)
(* sales files first, then the exchange rate, then the crypto price; the   *)
(* first failure ends it.  Each provider candidate either times out or     *)
(* answers with a well-formed payload.                                     *)
(***************************************************************************)
MaxCalls == 2

PipelineFiles ==
    { <<ExampleRows[1], ExampleRows[3]>>,
      <<Rec(D1, Num(7), Num(2), Num(3500))>>,
      <<>> }

\* no file can be read (not even the default vendas.csv), or the records read
FileOutcomes ==
    {[found |-> FALSE, recs |-> <<>>]} \cup {[found |-> TRUE, recs |-> r] : r \in PipelineFiles}

GoodPayload(fam) ==
    IF fam = "fx" THEN Payload(TRUE, TRUE, TRUE, TRUE, JNum(18), "num")
    ELSE Payload(TRUE, TRUE, TRUE, TRUE, JNum(65000), "num")

CandidateOutcomes(fam) ==
    {[http |-> "timeout", data |-> NoPayload], [http |-> "ok", data |-> GoodPayload(fam)]}

\* the for-loop of extract_*_api run to its end on the outcomes outs
RECURSIVE Failover(_, _, _)
Failover(fam, outs, i) ==
    IF i > Len(Apis(fam)) THEN AllFailed(fam)
    ELSE LET t == IF outs[i].http = "ok"
                  THEN TryCandidate(fam, Apis(fam)[i], outs[i].data)
                  ELSE Rejected
         IN IF t.accepted THEN [pc |-> "returned", res |-> t.res]
            ELSE Failover(fam, outs, ForNext(i))

extract_all_sources(file, fxouts, cryptoouts) ==
    IF ~file.found THEN [st |-> "FileNotFoundError", df |-> <<>>, rate |-> 0]
    ELSE LET fx == Failover("fx", fxouts, 1)
             crypto == Failover("crypto", cryptoouts, 1)
         IN IF fx.pc = "raised" \/ crypto.pc = "raised"
            THEN [st |-> "Exception", df |-> <<>>, rate |-> 0]
            ELSE [st |-> "ok", df |-> RawFrame(file.recs, "csv"), rate |-> fx.res.value.n]

(***************************************************************************)
(* run_pipeline and main (main.py 65-177).                                 *)
(***************************************************************************)
\* an except branch of run_pipeline that lets the error go up
OnPipelineErrorReraise(kind) == "raised"

\* except FileNotFoundError: ... return False / except Exception: ... return False
OnPipelineError(kind) == "False"

\* an exception of a stage caught on the spot, the run going on
Swallowed(err) == FALSE

\* an exception raised inside the try block leaves it: no later statement of
\* the block runs
Propagates(err) == err

\* sys.exit(0 if success else 1)
ExitCode(success) == IF success = "True" THEN 0 ELSE 1

\* run_pipeline returns ret; its locals are gone; main() turns ret into the
\* exit code
Return(ret) ==
    /\ pret' = ret
    /\ pexit' = IF pmain THEN ExitCode(ret) ELSE 0 - 1
    /\ ppc' = "idle"
    /\ tstage' = "off" /\ tdf' = <<>> /\ tagg' = <<>> /\ trate' = 0

InitPipeline ==
    /\ pkind = "none" /\ ppc = "idle" /\ pmode = "none" /\ pmain = FALSE
    /\ ptrace = <<>> /\ pret = "none" /\ pexit = 0 - 1 /\ pcalls = 0
    /\ dbdet = <<>> /\ dbagg = <<>> /\ dbmeta = NoLedger
    /\ psnap = [det |-> <<>>, agg |-> <<>>, meta |-> NoLedger]
    /\ lengine = FALSE /\ lmeta = "none" /\ lsd = "none" /\ lsa = "none"
    /\ llog = "none" /\ lret = "none"
    /\ TOff
    /\ QOff
    /\ VOff
    /\ EOff

\* main() calls run_pipeline(load_mode='replace'); run_pipeline may also be
\* called with either mode
StartRun ==
    /\ ppc = "idle"
    /\ pcalls < MaxCalls
    /\ pcalls' = pcalls + 1
    /\ pkind' = "pipeline"
    /\ \E m \in BOOLEAN, mode \in {"replace", "append"} :
           /\ m => mode = "replace"
           /\ pmain' = m
           /\ pmode' = mode
    /\ ppc' = "extract"
    /\ ptrace' = <<>>
    /\ pret' = "none"
    /\ pexit' = 0 - 1
    /\ psnap' = Database
    /\ lengine' = FALSE /\ lmeta' = "none" /\ lsd' = "none" /\ lsa' = "none"
    /\ llog' = "none" /\ lret' = "none"
    /\ UNCHANGED <<dbvars, tvars, qvars, vvars, evars>>

\* vendas_df, exchange_rate, crypto_info = extract_all_sources()
PExtract ==
    /\ ppc = "extract"
    /\ \E file \in FileOutcomes,
          fxouts \in [1..Len(FxApis) -> CandidateOutcomes("fx")],
          cryptoouts \in [1..Len(CryptoApis) -> CandidateOutcomes("crypto")] :
           LET x == extract_all_sources(file, fxouts, cryptoouts)
           IN IF x.st = "ok"
              THEN /\ ptrace' = Append(ptrace, "extract")
                   /\ tstage' = "raw"
                   /\ tdf' = x.df
                   /\ trate' = x.rate
                   /\ ppc' = "transform"
                   /\ UNCHANGED <<pret, pexit, tagg>>
              ELSE /\ ptrace' = ptrace \o <<"extract", "error">>
                   /\ Return(OnPipelineError(x.st))
    /\ UNCHANGED <<pkind, pmode, pmain, pcalls, psnap, lvars, dbvars,
                   tprev, tapplied, tclock, qvars, vvars, evars>>

\* one stage of transform_data; an exception leaves run_pipeline through
\* `except Exception`.  ptrace gets the stage, followed by "error" if it raised
Stage(name, from, to, r, load) ==
    /\ ppc = "transform"
    /\ tstage = from
    /\ ptrace' = IF r.err THEN ptrace \o <<name, "error">> ELSE Append(ptrace, name)
    /\ IF Propagates(r.err)
       THEN Return(OnPipelineError("Exception"))
       ELSE /\ tstage' = to
            /\ tdf' = IF to = "aggregated" THEN tdf ELSE r.df
            /\ tagg' = IF to = "aggregated" THEN r.agg ELSE tagg
            /\ ppc' = IF load THEN "load_connect" ELSE "transform"
            /\ UNCHANGED <<pret, pexit, trate>>
    /\ UNCHANGED <<pkind, pmode, pmain, pcalls, psnap, lvars, dbvars,
                   tprev, tapplied, qvars, vvars, evars>>

PClean == Stage("clean", "raw", "clean", clean_data(tdf), FALSE) /\ UNCHANGED tclock

PStandardize ==
    Stage("standardize", "clean", "std", standardize_data(tdf), FALSE) /\ UNCHANGED tclock

PEnrich ==
    /\ tclock' = tclock + 1
    /\ Stage("enrich", "std", "enriched", enrich_data(tdf, trate, tclock'), FALSE)

\* df_aggregated = aggregate_data(df); then load_all_data is called
PAggregate ==
    Stage("aggregate", "enriched", "aggregated", aggregate_data(tdf), TRUE)
    /\ UNCHANGED tclock

\* success = load_all_data(...); if not success: raise ...; ...; return True
PFinish ==
    /\ pkind = "pipeline"
    /\ ppc = "load_returned"
    /\ Return(IF lret = "True" THEN "True" ELSE OnPipelineError("Exception"))
    /\ UNCHANGED <<pkind, pmode, pmain, ptrace, pcalls, psnap, lvars, dbvars,
                   tprev, tapplied, tclock, qvars, vvars, evars>>

(***************************************************************************)
(* load_all_data called on its own, as in the module's self test           *)
(* (load.py 292-315).                                                      *)
(***************************************************************************)
LoadTestData ==
    Frame({"Data_Venda", "Produto", "Valor_Total_USD"}, {"Data_Venda", "Produto"}, {},
          << [ix |-> 0, v |-> [Data_Venda |-> D1, Produto |-> Text(<<"Notebook">>),
                               Valor_Total_USD |-> Num(60000)]],
             [ix |-> 1, v |-> [Data_Venda |-> D2, Produto |-> Text(<<"Mouse">>),
                               Valor_Total_USD |-> Num(1000)]] >>)

LoadTestAgg ==
    << [Data_Venda |-> D1, Total_Vendas_USD |-> 61000, Numero_Transacoes |-> 2] >>

StartLoad ==
    /\ ppc = "idle"
    /\ pcalls < MaxCalls
    /\ pcalls' = pcalls + 1
    /\ pkind' = "load"
    /\ pmain' = FALSE
    /\ pmode' \in {"replace", "append"}
    /\ ppc' = "load_connect"
    /\ ptrace' = <<>>
    /\ pret' = "none"
    /\ pexit' = 0 - 1
    /\ psnap' = Database
    /\ lengine' = FALSE /\ lmeta' = "none" /\ lsd' = "none" /\ lsa' = "none"
    /\ llog' = "none" /\ lret' = "none"
    /\ tstage' = "aggregated" /\ tdf' = LoadTestData /\ tagg' = LoadTestAgg
    /\ UNCHANGED <<dbvars, trate, tprev, tapplied, tclock, qvars, vvars, evars>>

\* load_all_data returns to the self test
LoadDone ==
    /\ pkind = "load"
    /\ ppc = "load_returned"
    /\ ppc' = "idle"
    /\ tstage' = "off" /\ tdf' = <<>> /\ tagg' = <<>>
    /\ UNCHANGED <<pkind, pmode, pmain, ptrace, pret, pexit, pcalls, psnap, lvars,
                   dbvars, trate, tprev, tapplied, tclock, qvars, vvars, evars>>

NextPipeline ==
    \/ StartRun \/ PExtract \/ PClean \/ PStandardize \/ PEnrich \/ PAggregate
    \/ PFinish \/ StartLoad \/ LoadDone
    \/ LConnect \/ LCreateMetadata \/ LWriteDetailed \/ LWriteAggregated
    \/ LLogSuccess \/ LLogFailed

SpecPipeline == InitPipeline /\ [][NextPipeline]_vars

(***************************************************************************)
(* Properties of orchestrated runs and loads (SpecPipeline).               *)
(***************************************************************************)
\* run_pipeline has returned
RunFinished == pkind = "pipeline" /\ ppc = "idle"

\* load_all_data has returned (its caller has not yet gone on)
LoadReturned == ppc = "load_returned"

\* the ledger entries added since the call started
NewEntries == SubSeq(dbmeta.rows, Len(psnap.meta.rows) + 1, Len(dbmeta.rows))

IsPrefix(a, b) == Len(a) <= Len(b) /\ SubSeq(b, 1, Len(a)) = a

FullTrace ==
    <<"extract", "clean", "standardize", "enrich", "aggregate", "load",
      "vendas_detalhadas", "vendas_agregadas">>

\* C12: every run of run_pipeline appends exactly one entry to the ledger,
\* whatever its outcome; a run that fails leaves exactly one new FAILED entry.
C12_OneLedgerEntryPerRun ==
    RunFinished =>
        /\ Len(NewEntries) = 1
        /\ pret = "False" => NewEntries[1].pipeline_status = "FAILED"

\* C13 as stated: when the write of the detailed or of the aggregated table
\* fails, load_all_data returns False and exactly one ledger entry is appended,
\* FAILED with records_processed = 0 and no tables; no SUCCESS entry.
C13_WriteFailureRecorded ==
    (LoadReturned /\ (lsd = "False" \/ lsa = "False")) =>
        /\ lret = "False"
        /\ Len(NewEntries) = 1
        /\ NewEntries[1].pipeline_status = "FAILED"
        /\ NewEntries[1].records_processed = 0
        /\ NewEntries[1].tables_loaded = <<>>

\* C13 amended: when the write of the detailed or of the aggregated table
\* fails, load_all_data returns False, no SUCCESS entry is written, and the
\* FAILED entry (records_processed = 0, no tables) is written best-effort:
\* exactly that one entry is appended if the ledger insert succeeds, and none
\* if the ledger insert fails too.
C13_WriteFailureBestEffort ==
    (LoadReturned /\ (lsd = "False" \/ lsa = "False")) =>
        /\ lret = "False"
        /\ Len(NewEntries) <= 1
        /\ \A k \in 1..Len(NewEntries) :
               /\ NewEntries[k].pipeline_status = "FAILED"
               /\ NewEntries[k].records_processed = 0
               /\ NewEntries[k].tables_loaded = <<>>
        /\ (llog = "True") <=> (Len(NewEntries) = 1)

C13_Witness ==
    /\ LoadReturned
    /\ lsd = "True"
    /\ lsa = "False"
    /\ lret = "False"
    /\ llog = "True"
    /\ Len(NewEntries) = 1
    /\ NewEntries[1].pipeline_status = "FAILED"

\* C14: a call is reported as success (load_all_data returned True, or
\* run_pipeline returned True) only if both table writes and the ledger append
\* completed: the call has then added its SUCCESS entry to the ledger.
C14_SuccessNeedsLedger ==
    /\ (LoadReturned /\ lret = "True") =>
           /\ lsd = "True" /\ lsa = "True"
           /\ Len(NewEntries) = 1
           /\ NewEntries[1].pipeline_status = "SUCCESS"
    /\ (RunFinished /\ pret = "True") =>
           /\ Len(NewEntries) = 1
           /\ NewEntries[1].pipeline_status = "SUCCESS"

\* C15: after a successful load in replace mode each table holds exactly the
\* rows of the dataset just written, whatever it held before (so repeating the
\* load leaves the same state); after a successful load in append mode each
\* table holds the rows it held before followed by the new rows.
C15_LoadModes ==
    (LoadReturned /\ lret = "True") =>
        /\ pmode = "replace" =>
               /\ dbdet = DetailedRows(tdf)
               /\ dbagg = tagg
        /\ pmode = "append" =>
               /\ dbdet = psnap.det \o DetailedRows(tdf)
               /\ dbagg = psnap.agg \o tagg

\* the same dataset loaded a second time in replace mode over its own rows
C15_Witness ==
    /\ LoadReturned
    /\ lret = "True"
    /\ pcalls = 2
    /\ pmode = "replace"
    /\ Len(psnap.det) = 2
    /\ psnap.det = DetailedRows(tdf)
    /\ dbdet = psnap.det
    /\ dbagg = psnap.agg

\* every phase ran and the load wrote both tables
AllPhasesSucceeded == ptrace = FullTrace /\ lsd = "True" /\ lsa = "True"

\* C16: run_pipeline never propagates an exception: it returns True if and
\* only if extraction, transformation and load all completed, False
\* otherwise; main exits with code 0 exactly when it returned True, with a
\* non-zero code otherwise.
C16_RunReturnsBoolean ==
    RunFinished =>
        /\ pret \in {"True", "False"}
        /\ (pret = "True") <=> AllPhasesSucceeded
        /\ pmain => /\ pexit \in {0, 1}
                    /\ (pexit = 0) <=> (pret = "True")
        /\ ~pmain => pexit = 0 - 1

\* a run through main() that failed in a transform stage
C16_Witness ==
    /\ RunFinished
    /\ pmain
    /\ pret = "False"
    /\ pexit = 1
    /\ ptrace = <<"extract", "clean", "standardize", "error">>

\* C17: in run_pipeline the phases start in the order extract, clean,
\* standardize, enrich, aggregate, load (detailed write, aggregated write),
\* none skipped, each at most once; nothing starts after a phase that
\* raised; a table is written only by its own write, so a run whose
\* extraction failed ran no stage and wrote nothing.
C17_PhaseOrder ==
    pkind = "pipeline" =>
        LET started == SelectSeq(ptrace, LAMBDA x : x # "error")
        IN /\ IsPrefix(started, FullTrace)
           /\ \A i \in 1..Len(ptrace) : ptrace[i] = "error" => i = Len(ptrace)
           /\ (\E i \in 1..Len(ptrace) : ptrace[i] = "error") =>
                  /\ ppc = "idle"
                  /\ pret # "True"
           /\ (\A i \in 1..Len(ptrace) : ptrace[i] # "vendas_detalhadas") =>
                  dbdet = psnap.det
           /\ (\A i \in 1..Len(ptrace) : ptrace[i] # "vendas_agregadas") =>
                  dbagg = psnap.agg

\* a second run whose extraction failed left the tables of the first run
C17_Witness ==
    /\ RunFinished
    /\ pcalls = 2
    /\ ptrace = <<"extract", "error">>
    /\ Len(dbdet) = 2
    /\ pret = "False"

\* C18: on its failure path load_all_data never raises: whether a table
\* write was rejected or no connection could be created, and whether or not
\* the FAILED ledger write itself failed, it returns False.
C18_LoadFailureAbsorbed ==
    (LoadReturned /\ ~(lsd = "True" /\ lsa = "True")) =>
        /\ lret = "False"
        /\ llog \in {"True", "False", "raised"}
        /\ ~lengine => llog = "raised"

\* no connection: the FAILED write raises on the unbound engine, absorbed
C18_Witness ==
    /\ LoadReturned
    /\ ~lengine
    /\ llog = "raised"
    /\ lret = "False"
    /\ lsd = "none"

\* C19: the ledger is append-only: no step removes or changes an entry (not
\* a replace-mode load, not the create-if-absent step), the number of
\* entries never decreases, and one load_all_data call adds at most one.
C19_LedgerAppendOnly ==
    [][/\ IsPrefix(dbmeta.rows, dbmeta'.rows)
       /\ dbmeta.exists => dbmeta'.exists
       /\ Len(dbmeta'.rows) <= Len(psnap'.meta.rows) + 1]_vars

\* two entries, the second added by a replace-mode load over an old ledger
C19_Witness ==
    /\ LoadReturned
    /\ pmode = "replace"
    /\ lret = "True"
    /\ lmeta = "True"
    /\ Len(dbmeta.rows) = 2
    /\ Len(psnap.meta.rows) = 1

DefaultPair(rows, i, j, col, default) ==
    /\ IsNull(rows[i].v[col])
    /\ rows[j].v[col] = default
    /\ \A c \in DOMAIN rows[i].v : c # col => rows[i].v[c] = rows[j].v[c]

StandardizeRerunChangesNothing ==
    (tstage = "std" /\ tstage' = "std") => tdf' = tdf

\* a step that runs enrich_data on its own output with the exchange rate of
\* the first run leaves the frame as it is
EnrichRerunChangesNothing ==
    (tstage = "enriched" /\ tstage' = "enriched" /\ trate' = trate) => tdf' = tdf

\* the standardize half of C22 on its own
StandardizeIdempotent == [][StandardizeRerunChangesNothing]_vars

\* C22: re-running standardize_data, or enrich_data with the same exchange
\* rate, on its own output changes nothing: S(S(x)) = S(x) in every column
\* and row.
C22_StagesIdempotent ==
    [][StandardizeRerunChangesNothing /\ EnrichRerunChangesNothing]_vars

\* the place of a tier in the order Baixo < Medio < Alto < Premium
TierRank(t) ==
    IF t = Text(<<"Baixo">>) THEN 1
    ELSE IF t = Text(<<"Medio">>) THEN 2
    ELSE IF t = Text(<<"Alto">>) THEN 3
    ELSE IF t = Text(<<"Premium">>) THEN 4
    ELSE 0

EnrichedValues ==
    {tdf.rows[k].v : k \in 1..Len(tdf.rows)}

\* C23: enrich_data gives a row with a positive converted total the tier of
\* its range, with the break points 50, 200 and 500 (here in hundredths):
\* (0, 50] Baixo, (50, 200] Medio, (200, 500] Alto, above 500 Premium; a
\* larger total never gets a lower tier; the tier depends on the total alone
\* (not on the rate, the date or the run).
C23_ValueTiers ==
    (tstage = "enriched" /\ "Valor_Total_USD" \in tdf.cols) =>
        /\ \A r \in EnrichedValues :
               (r["Valor_Total_USD"].k = "num" /\ r["Valor_Total_USD"].n > 0) =>
                   LET x == r["Valor_Total_USD"].n
                   IN r["Categoria_Valor"] =
                          IF x <= 5000 THEN Text(<<"Baixo">>)
                          ELSE IF x <= 20000 THEN Text(<<"Medio">>)
                          ELSE IF x <= 50000 THEN Text(<<"Alto">>)
                          ELSE Text(<<"Premium">>)
        /\ \A r1, r2 \in EnrichedValues :
               (/\ TierRank(r1["Categoria_Valor"]) > 0
                /\ TierRank(r2["Categoria_Valor"]) > 0
                /\ r1["Valor_Total_USD"].n <= r2["Valor_Total_USD"].n)
               => TierRank(r1["Categoria_Valor"]) <= TierRank(r2["Categoria_Valor"])

\* totals of exactly 50.00 and 500.00: the upper ends of Baixo and Alto
C23_Witness ==
    /\ tstage = "enriched"
    /\ tapplied = 1
    /\ \E r \in EnrichedValues :
           r["Valor_Total_USD"] = Num(5000) /\ r["Categoria_Valor"] = Text(<<"Baixo">>)
    /\ \E r \in EnrichedValues :
           r["Valor_Total_USD"] = Num(50000) /\ r["Categoria_Valor"] = Text(<<"Alto">>)

\* C24: every row of aggregate_data's output has Numero_Transacoes >= 1, for
\* any input that came through clean, standardize and enrich, so the division
\* Quantidade_Total / Numero_Transacoes never has a zero divisor.
C24_TransactionCountPositive ==
    tstage = "aggregated" =>
        \A k \in 1..Len(tagg) :
            /\ tagg[k].Numero_Transacoes >= 1
            /\ tagg[k].Itens_Por_Transacao.den # 0

\* C27: aggregation loses no record: the Numero_Transacoes of the aggregated
\* rows add up to the number of rows of the detailed dataset, for any input.
C27_NoRecordLost ==
    tstage = "aggregated" =>
        SumOver(1..Len(tagg), [k \in 1..Len(tagg) |-> tagg[k].Numero_Transacoes])
            = Len(tdf.rows)

\* C28: every enriched row with a quantity >= 0 and a price >= 0, both
\* present, and a positive rate has exactly one of the four tiers, a row
\* with a converted total of 0 included.
C28_EveryValidRowHasTier ==
    (tstage = "enriched" /\ {"Quantidade", "Preco_Local"} \subseteq tdf.cols) =>
        \A r \in EnrichedValues :
            (/\ r["Quantidade"].k = "num" /\ r["Quantidade"].n >= 0
             /\ r["Preco_Local"].k = "num" /\ r["Preco_Local"].n >= 0
             /\ trate > 0)
            => TierRank(r["Categoria_Valor"]) \in 1..4

(***************************************************************************)
(* More properties of loads (SpecPipeline).                                *)
(***************************************************************************)
\* the last two entries of the trace
LastTwo(t) == IF Len(t) < 2 THEN <<>> ELSE SubSeq(t, Len(t) - 1, Len(t))

C29_SecondWriteAfterFailedFirst ==
    /\ LoadReturned
    /\ lsd = "False"
    /\ lsa = "True"
    /\ lret = "False"
    /\ dbagg = tagg
    /\ dbdet = psnap.det

(***************************************************************************)
(* DataValidator (utils/validators.py 17-213).  Each validate_* method is  *)
(* an operator from the list of results and its arguments to the pair      *)
(* (success, list of results afterwards).                                  *)
(***************************************************************************)
ValidationResult(check, status) == [check |-> check, status |-> status]

\* self.validation_results.append({...}) followed by `return success, msg`
Checked(results, check, success) ==
    [success |-> success,
     results |-> Append(results,
                        ValidationResult(check, IF success THEN "passed" ELSE "failed"))]

\* `return False, msg` with nothing appended
Unchecked(results) == [success |-> FALSE, results |-> results]

validate_schema(results, df, expected_columns) ==
    Checked(results, "schema", expected_columns \ df.cols = {})

validate_not_null(results, df, columns) ==
    Checked(results, "not_null",
            \A col \in columns \cap df.cols : \A c \in ColumnCells(df, col) : ~IsNull(c))

\* pd.api.types.is_numeric_dtype / dtype object / is_datetime64_any_dtype /
\* is_bool_dtype on the column dtypes of a frame
HasType(df, col, expected_type) ==
    IF expected_type = "numeric" THEN col \notin df.obj /\ col \notin df.dt
    ELSE IF expected_type = "string" THEN col \in df.obj
    ELSE IF expected_type = "datetime" THEN col \in df.dt
    ELSE IF expected_type = "boolean" THEN FALSE
    ELSE TRUE

validate_data_types(results, df, type_map) ==
    Checked(results, "data_types",
            \A col \in DOMAIN type_map \cap df.cols : HasType(df, col, type_map[col]))

\* f"range_{column}"
RangeCheck(column) ==
    IF column = "Quantidade" THEN "range_Quantidade"
    ELSE IF column = "Preco_Local" THEN "range_Preco_Local"
    ELSE "range_Desconto"

\* validate_value_range with the unknown column recorded as a failed check
validate_value_range_recorded(results, df, column, min_val, max_val) ==
    IF column \notin df.cols
    THEN Checked(results, RangeCheck(column), FALSE)
    ELSE Checked(results, RangeCheck(column),
                 /\ IsNull(min_val) \/ \A c \in ColumnCells(df, column) :
                                          ~(c.k = "num" /\ c.n < min_val.n)
                 /\ IsNull(max_val) \/ \A c \in ColumnCells(df, column) :
                                          ~(c.k = "num" /\ c.n > max_val.n))

\* a comparison with a missing value is False, so missing values are in range
validate_value_range(results, df, column, min_val, max_val) ==
    IF column \notin df.cols
    THEN Unchecked(results)
    ELSE Checked(results, RangeCheck(column),
                 /\ IsNull(min_val) \/ \A c \in ColumnCells(df, column) :
                                          ~(c.k = "num" /\ c.n < min_val.n)
                 /\ IsNull(max_val) \/ \A c \in ColumnCells(df, column) :
                                          ~(c.k = "num" /\ c.n > max_val.n))

\* columns = {} stands for None and for the empty list: all columns
validate_no_duplicates(results, df, columns) ==
    LET subset == IF columns = {} THEN df.cols ELSE columns
    IN Checked(results, "duplicates",
               \A i, j \in 1..Len(df.rows) :
                   i < j => \E col \in subset : df.rows[i].v[col] # df.rows[j].v[col])

\* get_summary without its formatted success_rate
get_summary(results) ==
    LET total == Len(results)
        passed == Cardinality({i \in 1..Len(results) : results[i].status = "passed"})
    IN [total_checks |-> total, passed |-> passed, failed |-> total - passed,
        results |-> results]

\* reset
reset(results) == <<>>

(***************************************************************************)
(* One DataValidator and the calls made on it.                             *)
(***************************************************************************)
MaxChecks == 3

\* two good records; a record twice, without quantity; no record at all
ValidatorFrames ==
    { RawFrame(<<ExampleRows[1], ExampleRows[2]>>, "csv"),
      RawFrame(<<Rec(D1, Text(<<"Laptop">>), Null, Num(3500)),
                 Rec(D1, Text(<<"Laptop">>), Null, Num(3500))>>, "csv") }

ExpectedColumnSets == {{"Produto"}, {"Produto", "Categoria"}}
NotNullColumnSets == {{"Produto"}, {"Quantidade"}}
TypeMaps == {[c \in {"Quantidade"} |-> "numeric"], [c \in {"Produto"} |-> "numeric"]}
\* 'Desconto' is in none of the frames
RangeColumns == {"Quantidade", "Desconto"}
RangeLimits == {Null, Num(3)}
DuplicateColumnSets == {{}, {"Data_Venda"}}

InitDataValidator ==
    /\ dvresults = <<>>
    /\ dvlast = "none"
    /\ dvret = <<>>
    /\ dvcalls = 0
    /\ dvpassed = 0
    /\ dvops = 0
    /\ QOff
    /\ VOff
    /\ TOff
    /\ POff
    /\ XOff
    /\ KOff

\* success, msg = validator.validate_<name>(...)
Validated(name, r) ==
    /\ dvops < MaxChecks
    /\ dvops' = dvops + 1
    /\ dvlast' = name
    /\ dvret' = <<r.success>>
    /\ dvresults' = r.results
    /\ dvcalls' = dvcalls + 1
    /\ dvpassed' = IF r.success THEN dvpassed + 1 ELSE dvpassed
    /\ UNCHANGED <<qvars, vvars, tvars, pvars, xvars, kvars>>

ValidateSchema ==
    \E df \in ValidatorFrames, cols \in ExpectedColumnSets :
        Validated("validate_schema", validate_schema(dvresults, df, cols))

ValidateNotNull ==
    \E df \in ValidatorFrames, cols \in NotNullColumnSets :
        Validated("validate_not_null", validate_not_null(dvresults, df, cols))

ValidateDataTypes ==
    \E df \in ValidatorFrames, type_map \in TypeMaps :
        Validated("validate_data_types", validate_data_types(dvresults, df, type_map))

ValidateValueRange ==
    \E df \in ValidatorFrames, column \in RangeColumns,
       min_val \in RangeLimits, max_val \in RangeLimits :
        Validated("validate_value_range",
                  validate_value_range(dvresults, df, column, min_val, max_val))

ValidateNoDuplicates ==
    \E df \in ValidatorFrames, cols \in DuplicateColumnSets :
        Validated("validate_no_duplicates", validate_no_duplicates(dvresults, df, cols))

\* summary = validator.get_summary()
GetSummary ==
    /\ dvops < MaxChecks
    /\ dvops' = dvops + 1
    /\ dvlast' = "get_summary"
    /\ dvret' = <<get_summary(dvresults)>>
    /\ UNCHANGED <<dvresults, dvcalls, dvpassed, qvars, vvars, tvars, pvars, xvars, kvars>>

\* validator.reset()
Reset ==
    /\ dvops < MaxChecks
    /\ dvops' = dvops + 1
    /\ dvlast' = "reset"
    /\ dvret' = <<>>
    /\ dvresults' = reset(dvresults)
    /\ dvcalls' = 0
    /\ dvpassed' = 0
    /\ UNCHANGED <<qvars, vvars, tvars, pvars, xvars, kvars>>

NextDataValidator ==
    \/ ValidateSchema \/ ValidateNotNull \/ ValidateDataTypes \/ ValidateValueRange
    \/ ValidateNoDuplicates \/ GetSummary \/ Reset

SpecDataValidator == InitDataValidator /\ [][NextDataValidator]_vars

(***************************************************************************)
(* Properties of the DataValidator (SpecDataValidator).                    *)
(***************************************************************************)
\* C26: whatever validate_* calls and resets were made, get_summary reports
\* total_checks = the number of validate_* calls since construction or the
\* last reset, passed = the number of those that returned success, and
\* failed = total_checks - passed; after reset the validator is empty.
C26_SummaryCountsCalls ==
    /\ dvlast = "get_summary" =>
           /\ dvret[1].total_checks = dvcalls
           /\ dvret[1].passed = dvpassed
           /\ dvret[1].failed = dvret[1].total_checks - dvret[1].passed
    /\ dvlast = "reset" => dvresults = <<>>

(***************************************************************************)
(* The sales files of extract_all_sources (extract.py 83-174, 492-537).    *)
(* data/raw holds the files 0..MaxFiles: file 0 is a text file, file 1 is  *)
(* vendas.csv (also the default file of extract_file_data), the others are *)
(* .json, .xml, .csv, ... in turn.  A file is absent, unreadable (reading  *)
(* it raises) or readable with its records.  The directory is listed in    *)
(* the order of the file numbers.                                          *)
(***************************************************************************)
MaxFiles == 3

FileType(i) ==
    IF i = 0 THEN "txt"
    ELSE IF i % 3 = 1 THEN "csv"
    ELSE IF i % 3 = 2 THEN "json"
    ELSE "xml"

DefaultFile == 1

Absent == [st |-> "absent", recs |-> <<>>]
Unreadable == [st |-> "corrupt", recs |-> <<>>]
Readable(recs) == [st |-> "ok", recs |-> recs]

FileContents == {<<>>, <<ExampleRows[1]>>, <<ExampleRows[2], ExampleRows[3]>>}

FileStates(i) ==
    IF i = 0 THEN {Absent, Readable(<<ExampleRows[1]>>)}
    ELSE {Absent, Unreadable} \cup {Readable(recs) : recs \in FileContents}

\* pd.read_csv / pd.read_json / pd.read_xml followed by to_numeric on the
\* Quantidade and Preco_Local columns of an XML file
ReadFrame(file_type, recs) ==
    IF file_type = "csv" THEN RawFrame(recs, "csv")
    ELSE IF file_type = "json" THEN RawFrame(recs, "mixed")
    ELSE LET f == RawFrame(recs, "mixed")
         IN [f EXCEPT
                !.obj = RawColumns \ NumericColumns,
                !.rows = [i \in 1..Len(f.rows) |->
                    [f.rows[i] EXCEPT !.v =
                        [c \in RawColumns |->
                            IF c \in NumericColumns THEN ToNumeric(@[c]) ELSE @[c]]]]]

\* extract_file_data(file_path, file_type): the frame, or the exception raised
extract_file_data(file, file_type) ==
    IF file_type \notin {"csv", "json", "xml"} THEN [err |-> "Exception", df |-> EmptyFrame]
    ELSE IF file.st = "absent" THEN [err |-> "FileNotFoundError", df |-> EmptyFrame]
    ELSE IF file.st = "corrupt" THEN [err |-> "Exception", df |-> EmptyFrame]
    ELSE [err |-> "none", df |-> ReadFrame(file_type, file.recs)]

RECURSIVE ConcatRows(_, _)
ConcatRows(frames, k) ==
    IF k = 0 THEN <<>> ELSE ConcatRows(frames, k - 1) \o frames[k].rows

\* only the first of the frames
concat_first(frames) == frames[1]

\* pd.concat(frames, ignore_index=True)
pd_concat(frames) ==
    LET rows == ConcatRows(frames, Len(frames))
    IN Frame(UNION {frames[k].cols : k \in 1..Len(frames)},
             UNION {frames[k].obj : k \in 1..Len(frames)},
             {},
             [i \in 1..Len(rows) |-> [rows[i] EXCEPT !.ix = i - 1]])

\* os.listdir(raw_dir) filtered by extension, when raw_dir exists
SupportedFiles(dir) ==
    LET S == {i \in 1..MaxFiles : dir.exists /\ dir.files[i].st # "absent"
                                  /\ FileType(i) \in {"csv", "json", "xml"}}
    IN [k \in 1..Cardinality(S) |->
           CHOOSE i \in S : Cardinality({j \in S : j < i}) = k - 1]

InitExtract ==
    /\ xpc = "start"
    /\ \E files \in [0..MaxFiles -> UNION {FileStates(i) : i \in 0..MaxFiles}] :
           /\ \A i \in 0..MaxFiles : files[i] \in FileStates(i)
           /\ \/ xdir = [exists |-> TRUE, files |-> files]
              \/ /\ \A i \in 0..MaxFiles : files[i] = Absent
                 /\ xdir = [exists |-> FALSE, files |-> files]
    /\ xfiles = <<>>
    /\ xidx = 0
    /\ xframes = <<>>
    /\ xdf = <<>>
    /\ xdefault = FALSE
    /\ xreq = <<>>
    /\ xerr = "none"
    /\ QOff
    /\ VOff
    /\ TOff
    /\ POff
    /\ DOff
    /\ KOff

\* supported_files = [...]
XList ==
    /\ xpc = "start"
    /\ xfiles' = SupportedFiles(xdir)
    /\ xidx' = 1
    /\ xpc' = "loop"
    /\ UNCHANGED <<xdir, xframes, xdf, xdefault, xreq, xerr,
                   qvars, vvars, tvars, pvars, dvars, kvars>>

\* one pass of `for file_path in supported_files`: the frame is appended, or
\* the exception is logged and the loop goes on
XLoadFile ==
    /\ xpc = "loop"
    /\ xidx <= Len(xfiles)
    /\ LET r == extract_file_data(xdir.files[xfiles[xidx]], FileType(xfiles[xidx]))
       IN xframes' = IF r.err = "none" THEN Append(xframes, r.df) ELSE xframes
    /\ xidx' = xidx + 1
    /\ UNCHANGED <<xpc, xdir, xfiles, xdf, xdefault, xreq, xerr,
                   qvars, vvars, tvars, pvars, dvars, kvars>>

\* after the loop: the frames are combined, or extract_csv_data() reads the
\* default file, whose exception leaves extract_all_sources
XCombine ==
    /\ xpc = "loop"
    /\ xidx > Len(xfiles)
    /\ IF Len(xframes) > 0
       THEN /\ xdf' = IF Len(xframes) > 1 THEN pd_concat(xframes) ELSE xframes[1]
            /\ xpc' = "fx"
            /\ UNCHANGED <<xdefault, xerr>>
       ELSE LET file == IF xdir.exists THEN xdir.files[DefaultFile] ELSE Absent
                r == extract_file_data(file, "csv")
            IN /\ xdefault' = TRUE
               /\ IF r.err = "none"
                  THEN xdf' = r.df /\ xpc' = "fx" /\ UNCHANGED xerr
                  ELSE xdf' = xdf /\ xpc' = "raised" /\ xerr' = r.err
    /\ UNCHANGED <<xdir, xfiles, xidx, xframes, xreq,
                   qvars, vvars, tvars, pvars, dvars, kvars>>

\* exchange_rate = extract_exchange_rate_api()
XExchangeRate ==
    /\ xpc = "fx"
    /\ xreq' = Append(xreq, "fx")
    /\ \E outs \in [1..Len(FxApis) -> CandidateOutcomes("fx")] :
           IF Failover("fx", outs, 1).pc = "raised"
           THEN xpc' = "raised" /\ xerr' = "Exception"
           ELSE xpc' = "crypto" /\ UNCHANGED xerr
    /\ UNCHANGED <<xdir, xfiles, xidx, xframes, xdf, xdefault,
                   qvars, vvars, tvars, pvars, dvars, kvars>>

\* crypto_price = extract_crypto_price_api(); return
XCryptoPrice ==
    /\ xpc = "crypto"
    /\ xreq' = Append(xreq, "crypto")
    /\ \E outs \in [1..Len(CryptoApis) -> CandidateOutcomes("crypto")] :
           IF Failover("crypto", outs, 1).pc = "raised"
           THEN xpc' = "raised" /\ xerr' = "Exception"
           ELSE xpc' = "returned" /\ UNCHANGED xerr
    /\ UNCHANGED <<xdir, xfiles, xidx, xframes, xdf, xdefault,
                   qvars, vvars, tvars, pvars, dvars, kvars>>

NextExtract == XList \/ XLoadFile \/ XCombine \/ XExchangeRate \/ XCryptoPrice

SpecExtract == InitExtract /\ [][NextExtract]_vars

(***************************************************************************)
(* Properties of the file extraction (SpecExtract).                        *)
(***************************************************************************)
\* the supported files of data/raw that can be read
LoadableFiles ==
    {i \in 1..MaxFiles : xdir.exists /\ xdir.files[i].st = "ok"}

\* the file loop is over
FilesDone == xpc \in {"fx", "crypto", "returned", "raised"}

\* C25: a file that fails to load is skipped without ending the extraction,
\* and the files that loaded are concatenated: the merged dataset has the sum
\* of the row counts of the loadable files; the default file is asked for
\* exactly when no file was found or loaded; if it is absent too, the
\* extraction ends in FileNotFoundError with no provider request made.
C25_FileExtraction ==
    /\ (FilesDone /\ LoadableFiles # {}) =>
           /\ xerr # "FileNotFoundError"
           /\ xpc = "raised" => xreq # <<>>
           /\ Len(xframes) = Cardinality(LoadableFiles)
           /\ Len(xdf.rows) =
                  SumOver(LoadableFiles,
                          [i \in LoadableFiles |-> Len(xdir.files[i].recs)])
    /\ xdefault => LoadableFiles = {}
    /\ (FilesDone /\ LoadableFiles = {}) => xdefault
    /\ (xdefault /\ (~xdir.exists \/ xdir.files[1].st = "absent")) =>
           /\ xpc = "raised"
           /\ xerr = "FileNotFoundError"
    /\ xerr = "FileNotFoundError" => xreq = <<>>

\* an unreadable file beside two readable ones: 1 + 2 records extracted
C25_Witness ==
    /\ xpc = "returned"
    /\ \E i \in 1..MaxFiles : xdir.files[i].st = "corrupt"
    /\ Cardinality(LoadableFiles) = 2
    /\ Len(xframes) = 2
    /\ Len(xdf.rows) = 3
    /\ ~xdefault
    /\ xreq = <<"fx", "crypto">>

\* no file in data/raw: the default file is missing too
C25_NoFileAtAll ==
    /\ xpc = "raised"
    /\ xerr = "FileNotFoundError"
    /\ xfiles = <<>>
    /\ xdefault
    /\ xreq = <<>>

(***************************************************************************)
(* Several load_all_data calls against one database (load.py 205-288).     *)
(* Each call has its own locals and its own datasets; the tables are       *)
(* shared, and a to_sql is one step of the database.  The caller either    *)
(* starts a call only when no other is running (kserial) or starts them    *)
(* freely.                                                                 *)
(***************************************************************************)
MaxRuns == 2

Runs == 1..MaxRuns

\* df_detailed and df_aggregated of run p
RunDetailed(p) ==
    << [Data_Venda |-> D1, Produto |-> Text(<<"Notebook">>),
        Valor_Total_USD |-> Num(1000 * p)] >>

RunAggregated(p) ==
    << [Data_Venda |-> D1, Total_Vendas_USD |-> 1000 * p, Numero_Transacoes |-> 1] >>

RunIdle ==
    [pc |-> "idle", mode |-> "none", engine |-> FALSE, meta |-> "none",
     sd |-> "none", sa |-> "none", log |-> "none", ret |-> "none"]

\* the call is between its first and its last statement
Running(p) == kruns[p].pc \notin {"idle", "returned"}

InitConcurrentLoad ==
    /\ kruns = [p \in Runs |-> RunIdle]
    /\ kserial \in BOOLEAN
    /\ dbdet = <<>> /\ dbagg = <<>> /\ dbmeta = NoLedger
    /\ pkind = "off" /\ ppc = "off" /\ pmode = "none" /\ pmain = FALSE
    /\ ptrace = <<>> /\ pret = "none" /\ pexit = 0 - 1 /\ pcalls = 0
    /\ psnap = <<>>
    /\ lengine = FALSE /\ lmeta = "none" /\ lsd = "none" /\ lsa = "none"
    /\ llog = "none" /\ lret = "none"
    /\ QOff
    /\ VOff
    /\ TOff
    /\ DOff
    /\ XOff

KFrame == <<qvars, vvars, tvars, cvars, lvars, dvars, xvars, kserial>>

\* load_all_data(df_detailed, df_aggregated, load_mode) is called
KStart(p) ==
    /\ kruns[p].pc = "idle"
    /\ kserial => \A q \in Runs : ~Running(q)
    /\ \E mode \in {"replace", "append"} :
           kruns' = [kruns EXCEPT ![p] = [RunIdle EXCEPT !.pc = "connect", !.mode = mode]]
    /\ UNCHANGED <<dbvars, KFrame>>

\* engine = create_database_connection()
KConnect(p) ==
    /\ kruns[p].pc = "connect"
    /\ \/ kruns' = [kruns EXCEPT ![p].engine = TRUE, ![p].pc = "meta"]
       \/ kruns' = [kruns EXCEPT ![p].engine = FALSE, ![p].pc = "failed"]
    /\ UNCHANGED <<dbvars, KFrame>>

\* create_metadata_table(engine)
KCreateMetadata(p) ==
    /\ kruns[p].pc = "meta"
    /\ \/ /\ dbmeta' = CreateIfNotExists(dbmeta)
          /\ kruns' = [kruns EXCEPT ![p].meta = "True", ![p].pc = "detailed"]
       \/ /\ dbmeta' = dbmeta
          /\ kruns' = [kruns EXCEPT ![p].meta = "False", ![p].pc = "detailed"]
    /\ UNCHANGED <<dbdet, dbagg, KFrame>>

\* success_detailed = load_to_database(df_detailed, 'vendas_detalhadas', ...)
KWriteDetailed(p) ==
    /\ kruns[p].pc = "detailed"
    /\ \/ /\ dbdet' = to_sql(dbdet, RunDetailed(p), kruns[p].mode)
          /\ kruns' = [kruns EXCEPT ![p].sd = "True", ![p].pc = "aggregated"]
       \/ /\ dbdet' \in FailedWrite(dbdet, kruns[p].mode)
          /\ kruns' = [kruns EXCEPT ![p].sd = "False", ![p].pc = "aggregated"]
    /\ UNCHANGED <<dbagg, dbmeta, KFrame>>

\* success_aggregated = load_to_database(df_aggregated, 'vendas_agregadas', ...)
\* and the test `if success_detailed and success_aggregated`
KWriteAggregated(p) ==
    /\ kruns[p].pc = "aggregated"
    /\ \/ /\ dbagg' = to_sql(dbagg, RunAggregated(p), kruns[p].mode)
          /\ kruns' = [kruns EXCEPT
                          ![p].sa = "True",
                          ![p].pc = IF kruns[p].sd = "True" THEN "verify" ELSE "failed"]
       \/ /\ dbagg' \in FailedWrite(dbagg, kruns[p].mode)
          /\ kruns' = [kruns EXCEPT ![p].sa = "False", ![p].pc = "failed"]
    /\ UNCHANGED <<dbdet, dbmeta, KFrame>>

\* verify_load twice, log_pipeline_execution('SUCCESS', ...), `return True`
KLogSuccess(p) ==
    /\ kruns[p].pc = "verify"
    /\ \/ /\ dbmeta.exists
          /\ dbmeta' = InsertEntry(dbmeta,
                           LedgerEntry("SUCCESS", Len(RunDetailed(p)),
                                       <<DetailedTable, AggregatedTable>>, kruns[p].mode))
          /\ kruns' = [kruns EXCEPT ![p].log = "True", ![p].ret = "True",
                                    ![p].pc = "returned"]
       \/ /\ dbmeta' = dbmeta
          /\ kruns' = [kruns EXCEPT ![p].log = "False", ![p].ret = "True",
                                    ![p].pc = "returned"]
    /\ UNCHANGED <<dbdet, dbagg, KFrame>>

\* except Exception: the FAILED record, best effort, then `return False`
KLogFailed(p) ==
    /\ kruns[p].pc = "failed"
    /\ \/ /\ kruns[p].engine
          /\ dbmeta.exists
          /\ dbmeta' = InsertEntry(dbmeta, LedgerEntry("FAILED", 0, <<>>, "write"))
          /\ kruns' = [kruns EXCEPT ![p].log = "True", ![p].ret = "False",
                                    ![p].pc = "returned"]
       \/ /\ dbmeta' = dbmeta
          /\ kruns' = [kruns EXCEPT
                          ![p].log = IF kruns[p].engine THEN "False" ELSE "raised",
                          ![p].ret = "False", ![p].pc = "returned"]
    /\ UNCHANGED <<dbdet, dbagg, KFrame>>

NextConcurrentLoad ==
    \E p \in Runs :
        \/ KStart(p) \/ KConnect(p) \/ KCreateMetadata(p) \/ KWriteDetailed(p)
        \/ KWriteAggregated(p) \/ KLogSuccess(p) \/ KLogFailed(p)

SpecConcurrentLoad == InitConcurrentLoad /\ [][NextConcurrentLoad]_vars

(***************************************************************************)
(* Properties of loads side by side (SpecConcurrentLoad).                  *)
(***************************************************************************)
\* run p returned True from a replace-mode load
LoadedReplace(p) ==
    kruns[p].pc = "returned" /\ kruns[p].ret = "True" /\ kruns[p].mode = "replace"

\* the step in which run p returns True from a replace-mode load
ReturnsLoadedReplace(p) ==
    /\ kruns[p].pc = "verify"
    /\ kruns'[p].pc = "returned"
    /\ kruns'[p].ret = "True"
    /\ kruns[p].mode = "replace"

\* C30: load_all_data takes no lock.  When the calls are serialized, a
\* replace-mode load that returns True leaves both tables holding the
\* datasets of that same run; when two replace-mode calls run side by side,
\* their writes can interleave so that both return True while the detailed
\* table holds the rows of one run and the aggregated table those of the
\* other (the state C30_Interleaved).
C30_SerializedLoadsConsistent ==
    [][\A p \in Runs :
           (kserial /\ ReturnsLoadedReplace(p)) =>
               /\ dbdet' = RunDetailed(p)
               /\ dbagg' = RunAggregated(p)]_vars

\* two replace-mode calls side by side, both returned True, the tables of
\* different runs
C30_Interleaved ==
    /\ ~kserial
    /\ \E p, q \in Runs :
           /\ p # q
           /\ LoadedReplace(p)
           /\ LoadedReplace(q)
           /\ dbdet = RunDetailed(p)
           /\ dbagg = RunAggregated(q)

====
